---------------------------- MODULE Spec2Model ----------------------------
(***************************************************************************)
(* A model of DynLibUtils (Wend4r/cpp-dynlibutils): the masked byte        *)
(* pattern scanners with their result cache, and the virtual-table slot    *)
(* hooks with their managers.                                              *)
(*                                                                         *)
(* Addresses are integers; 0 is the invalid address (DYNLIB_INVALID_MEMORY *)
(* / nullptr).  A section is a byte sequence placed at SectionBase.        *)
(***************************************************************************)
EXTENDS Integers, Sequences, FiniteSets, TLC

VARIABLES
    mem,          \* bytes of the module's executable section (Section_t contents)
    m_mapCached,  \* CAssemblyModule::m_mapCached : CCache key -> address
    call,         \* the last FindPattern call: its inputs
    ret,          \* the address the last call returned
    fromCache,    \* TRUE iff the last call was answered by GetAddress
    nCalls,       \* number of FindPattern calls made on the module
    prevRet,      \* history: the address the call before the last returned
    prevCache,    \* history: m_mapCached as it was before the last call
    vtmem,        \* the virtual tables: slot address -> function pointer
    prot,         \* memory protection of the page of each virtual table
    platform,     \* "posix" or "windows": the branch VirtualUnprotector compiles
    hooks,        \* the CVTHook objects: life, slot address (CMemory), m_pOriginalFn
    aborted,      \* TRUE once an assert() has failed
    last,         \* history: the last hook operation, its result and its stores
    track,        \* history per CVTHook object: what it went through
    installs,     \* history per Hook() call: who holds it, who restored its slot
    manager,      \* the manager class of a run: "CVTMHook" or "CVTFMHook"
    m_storage,    \* CVTMHookBase::m_storage : multimap view -> CVTHook element
    sm_vcallbacks,\* CVTFMHook::sm_vcallbacks : view -> list of callbacks
    added,        \* history per slot: what was added for it since its view's removal
    firstBefore,  \* history per slot: the pointer it held before the first of those
    nAdds,        \* number of AddHook calls made
    mlast,        \* history: the last manager operation or call through a slot
    cbCalls,      \* the (index, match) pairs FindAllPatterns handed to its callback
    parse,        \* the last pattern string parsed and what both parsers made of it
    memprot,      \* one memory region, its protection, and one CMemProtector on it
    image,        \* the module objects, their handles and section lists, and dlopen's counts
    thr,          \* the threads inside FindPattern and the module's m_mutex
    rm,           \* the thread inside CVTFMHook::RemoveHook or Clear: where it is
    m_storage2,   \* m_storage of a second manager instance of the same signature
    sm_callback,  \* CVTFHook::sm_callback : the callback shared by a signature, 0 when empty
    fcall         \* the last call of a free function: its arguments and what it returned

-----------------------------------------------------------------------------
(* Bounds of the model *)

MaxLen == 3          \* patterns hold 0..MaxLen bytes
MaxCalls == 2        \* FindPattern calls made on one module

Bytes == {0, 1}                  \* byte values drawn for sections and patterns
MaskChars == {"x", "?"}          \* Pattern_t::m_aMask characters
SectionSizes == {1, 2, 4}        \* sizes of the section the scalar scanner scans
RunBufSizes == {1, 2}            \* the template argument SIZE of FindPattern<SIZE>
SimdSectionSizes == {3, 16, 17, 32, 33}  \* section sizes around one SIMD block
MaxSimdPatLen == 2               \* pattern lengths for the SIMD scanners

NumHooks == 2        \* CVTHook objects a run constructs
MaxInstalls == 2     \* Hook() calls a run makes on CVTHook objects
MaxAdds == 2         \* AddHook() calls a run makes on a manager

-----------------------------------------------------------------------------
(* The parts of the state a specification of another part leaves idle *)

NoParse == [done |-> FALSE]

NoMemProt == [life |-> "unborn"]

NoThreads == [pc |-> <<>>]
NoRemover == [pc |-> "none", view |-> 0]

NoFCall == [fn |-> "none"]

InitNoExt2 ==
    /\ m_storage2 = <<>>
    /\ sm_callback = 0
    /\ fcall = NoFCall

ext2Vars == <<m_storage2, sm_callback, fcall>>

InitNoExt ==
    /\ InitNoExt2
    /\ parse = NoParse
    /\ memprot = NoMemProt
    /\ image = [crashed |-> FALSE]
    /\ thr = NoThreads
    /\ rm = NoRemover

extVars == <<parse, memprot, image, thr, rm, ext2Vars>>

-----------------------------------------------------------------------------
(* Sections and addresses *)

InvalidMemory == 0
SectionBase == 64

\* Section_t of the executable section: {base, size}
TextSection(m) == [base |-> SectionBase, size |-> Len(m)]

\* const Section_t* arguments: the null pointer, or a pointer to a section
NullSectionPtr == [isNull |-> TRUE, base |-> 0, size |-> 0]
SectionPtr(sec) == [isNull |-> FALSE, base |-> sec.base, size |-> sec.size]

\* Section_t::IsValid (CMemory::IsValid): base # nullptr
SectionIsValid(sec) == sec.base # InvalidMemory

\* *(uint8_t*)addr for an address inside the section
ByteAt(m, addr) == m[addr - SectionBase + 1]

-----------------------------------------------------------------------------
(* CCache and the cache lookup *)

\* CCache(pPatternMem, nSize, pStartAddress, pModuleSection)
CCache(pattern, nSize, pStartAddress, pModuleSection) ==
    [m_svPattern    |-> SubSeq(pattern, 1, nSize),
     m_nStart       |-> pStartAddress,
     m_pSectionAddr |-> IF pModuleSection.isNull THEN 0 ELSE pModuleSection.base,
     m_nSectionSize |-> IF pModuleSection.isNull THEN 0 ELSE pModuleSection.size]

\* CAssemblyModule::GetAddress : the cached address of a key, or invalid
GetAddress(cache, hKey) ==
    IF hKey \in DOMAIN cache THEN cache[hKey] ELSE InvalidMemory

\* m_mapCached[std::move(sKey)] = pData
CacheInsert(cache, hKey, pData) ==
    [k \in (DOMAIN cache) \cup {hKey} |-> IF k = hKey THEN pData ELSE cache[k]]

EmptyCache == [k \in {} |-> InvalidMemory]

-----------------------------------------------------------------------------
(* CAssemblyModule::FindPattern, the scalar scanner over 'x' runs *)

\* first index >= i of svMask that is not 'x' (Len + 1 when there is none)
RECURSIVE RunEnd(_, _)
RunEnd(svMask, i) ==
    IF i <= Len(svMask) /\ svMask[i] = "x" THEN RunEnd(svMask, i + 1) ELSE i

\* the loop that fills iters[]: the contiguous 'x' runs of the mask, or no run
\* at all (runCount = 0) once a run does not fit the buffer of capacity cap
RECURSIVE BuildRuns(_, _, _, _)
BuildRuns(svMask, i, iters, cap) ==
    IF i > Len(svMask) THEN iters
    ELSE IF svMask[i] # "x" THEN BuildRuns(svMask, i + 1, iters, cap)
    ELSE LET e == RunEnd(svMask, i) IN
         IF Len(iters) < cap
         THEN BuildRuns(svMask, e,
                        Append(iters, [offset |-> i - 1, length |-> e - i]), cap)
         ELSE <<>>

\* SignatureMask_t iters[SIZE > 0 ? SIZE : 1]
ItersCapacity(SIZE) == IF SIZE > 0 THEN SIZE ELSE 1

\* std::memcmp(pData + run.offset, pPattern + run.offset, run.length) == 0
MemCmpEqual(m, pData, pattern, run) ==
    \A k \in 0..(run.length - 1) :
        ByteAt(m, pData + run.offset + k) = pattern[run.offset + k + 1]

\* a faulty loop body: only the first run of iters[] is compared
MatchAtFirstRun(m, pData, iters, pattern, svMask) ==
    IF Len(iters) > 0
    THEN MemCmpEqual(m, pData, pattern, iters[1])
    ELSE \A j \in 1..Len(svMask) :
            svMask[j] = "x" => ByteAt(m, pData + j - 1) = pattern[j]

\* the body of the main scan's loop: does the pattern match at pData
MatchAt(m, pData, iters, pattern, svMask) ==
    IF Len(iters) > 0
    THEN \A r \in 1..Len(iters) : MemCmpEqual(m, pData, pattern, iters[r])
    ELSE \A j \in 1..Len(svMask) :
            svMask[j] = "x" => ByteAt(m, pData + j - 1) = pattern[j]

\* for (; pData <= pEnd; ++pData) : the first matching address, or invalid
RECURSIVE MainScan(_, _, _, _, _, _)
MainScan(m, pData, pEnd, iters, pattern, svMask) ==
    IF pData > pEnd THEN InvalidMemory
    ELSE IF MatchAt(m, pData, iters, pattern, svMask) THEN pData
    ELSE MainScan(m, pData + 1, pEnd, iters, pattern, svMask)

\* return DYNLIB_INVALID_MEMORY
NotFound(cache) == [ret |-> InvalidMemory, cache |-> cache, hit |-> FALSE]
\* a faulty return of a match: the address is not stored in m_mapCached
FoundAtUncached(cache, sKey, pData) ==
    [ret |-> pData, cache |-> cache, hit |-> FALSE]
\* m_mapCached[std::move(sKey)] = pData; return pData
FoundAt(cache, sKey, pData) ==
    [ret |-> pData, cache |-> CacheInsert(cache, sKey, pData), hit |-> FALSE]

\* the scan after the cache has missed
ScanSection(cache, m, pExec, SIZE, pattern, svMask, pStartAddress, pModuleSection) ==
    LET sKey == CCache(pattern, Len(svMask), pStartAddress, pModuleSection)
        pSection == IF pModuleSection.isNull THEN pExec ELSE pModuleSection
    IN
    IF pSection.isNull \/ ~SectionIsValid(pSection) THEN NotFound(cache)
    ELSE
    LET base == pSection.base
        patternSize == Len(svMask)
        pEnd == base + pSection.size - patternSize
    IN
    IF pStartAddress # InvalidMemory /\ (pStartAddress < base \/ pStartAddress > pEnd)
    THEN NotFound(cache)
    ELSE
    LET pData == IF pStartAddress # InvalidMemory THEN pStartAddress ELSE base
        iters == BuildRuns(svMask, 1, <<>>, ItersCapacity(SIZE))
    IN
    IF Len(iters) = 0 /\ (\A j \in 1..patternSize : svMask[j] # "x")
    THEN FoundAt(cache, sKey, pData)
    ELSE LET p == MainScan(m, pData, pEnd, iters, pattern, svMask) IN
         IF p # InvalidMemory THEN FoundAt(cache, sKey, p) ELSE NotFound(cache)

\* CAssemblyModule::FindPattern<SIZE>(pPatternMem, svMask, pStartAddress, pModuleSection)
FindPattern(cache, m, pExec, SIZE, pattern, svMask, pStartAddress, pModuleSection) ==
    LET sKey == CCache(pattern, Len(svMask), pStartAddress, pModuleSection)
        pAddr == GetAddress(cache, sKey)
    IN
    IF pAddr # InvalidMemory
    THEN [ret |-> pAddr, cache |-> cache, hit |-> TRUE]
    ELSE ScanSection(cache, m, pExec, SIZE, pattern, svMask, pStartAddress, pModuleSection)

-----------------------------------------------------------------------------
(* CModule::FindPattern and its three scanners *)

SSE2Width == 16
AVX2Width == 32
Builds == {"avx2", "sse2", "scalar"}   \* __AVX2__ / __SSE2__ only / neither

\* a & b on bytes
RECURSIVE ByteAnd(_, _)
ByteAnd(a, b) ==
    IF a = 0 \/ b = 0 THEN 0
    ELSE 2 * ByteAnd(a \div 2, b \div 2) + (IF a % 2 = 1 /\ b % 2 = 1 THEN 1 ELSE 0)

\* std::memcpy(&vec, src, maskLen) into a zeroed vector: lane k of the vector
VecLane(src, maskLen, k) == IF k < maskLen THEN src[k + 1] ELSE 0

\* _mm_movemask_epi8(_mm_cmpeq_epi8(data & maskVec, patternVec & maskVec)):
\* the set of lanes whose bit is set
MatchMask(m, pData, pattern, mask, maskLen, width) ==
    {k \in 0..(width - 1) :
        ByteAnd(ByteAt(m, pData + k), VecLane(mask, maskLen, k))
          = ByteAnd(VecLane(pattern, maskLen, k), VecLane(mask, maskLen, k))}

\* expectedMask: 0xFFFF.. when maskLen >= width, else (1U << maskLen) - 1
ExpectedMask(maskLen, width) ==
    IF maskLen >= width THEN 0..(width - 1) ELSE 0..(maskLen - 1)

\* for (; pData <= simdEnd; ++pData) of FindPatternSSE2 / FindPatternAVX2
RECURSIVE SimdLoop(_, _, _, _, _, _, _)
SimdLoop(m, pData, simdEnd, pattern, mask, maskLen, width) ==
    IF pData > simdEnd THEN InvalidMemory
    ELSE IF ExpectedMask(maskLen, width)
              \subseteq MatchMask(m, pData, pattern, mask, maskLen, width)
         THEN pData
         ELSE SimdLoop(m, pData + 1, simdEnd, pattern, mask, maskLen, width)

FindPatternSSE2(m, pData, pEnd, pattern, mask, maskLen) ==
    SimdLoop(m, pData, pEnd - SSE2Width + maskLen, pattern, mask, maskLen, SSE2Width)

FindPatternAVX2(m, pData, pEnd, pattern, mask, maskLen) ==
    SimdLoop(m, pData, pEnd - AVX2Width + maskLen, pattern, mask, maskLen, AVX2Width)

RECURSIVE FindPatternScalar(_, _, _, _, _, _)
FindPatternScalar(m, pData, pEnd, pattern, mask, maskLen) ==
    IF pData > pEnd THEN InvalidMemory
    ELSE IF \A i \in 1..maskLen : mask[i] = "x" => pattern[i] = ByteAt(m, pData + i - 1)
         THEN pData
         ELSE FindPatternScalar(m, pData + 1, pEnd, pattern, mask, maskLen)

\* the preprocessing loop: wildcards become 0 in the pattern and in the mask
FilteredPattern(pattern, mask) ==
    [i \in 1..Len(mask) |-> IF mask[i] = "x" THEN pattern[i] ELSE 0]
BinaryMask(mask) ==
    [i \in 1..Len(mask) |-> IF mask[i] = "x" THEN 255 ELSE 0]

\* the scanner CModule::FindPattern hands the validated range to
SelectedScanner(build, m, pData, pEnd, pattern, mask) ==
    LET maskLen == Len(mask) IN
    IF build = "avx2" /\ maskLen <= AVX2Width
    THEN FindPatternAVX2(m, pData, pEnd, FilteredPattern(pattern, mask),
                         BinaryMask(mask), maskLen)
    ELSE IF build \in {"avx2", "sse2"} /\ maskLen <= SSE2Width
    THEN FindPatternSSE2(m, pData, pEnd, FilteredPattern(pattern, mask),
                         BinaryMask(mask), maskLen)
    ELSE FindPatternScalar(m, pData, pEnd, pattern, mask, maskLen)

\* CModule::FindPattern(pattern, mask, startAddress, moduleSection)
CModuleFindPattern(build, m, section, pattern, mask, startAddress) ==
    IF ~SectionIsValid(section) THEN InvalidMemory
    ELSE
    LET base == section.base
        maskLen == Len(mask)
        pEnd == base + section.size - maskLen
    IN
    IF maskLen = 0 \/ section.size < maskLen THEN InvalidMemory
    ELSE IF startAddress # InvalidMemory /\ (base > startAddress \/ startAddress > pEnd)
    THEN InvalidMemory
    ELSE SelectedScanner(build, m,
                         IF startAddress # InvalidMemory THEN startAddress ELSE base,
                         pEnd, pattern, mask)

-----------------------------------------------------------------------------
(* The calls made on one module *)

NoCall ==
    [api |-> "none", pattern |-> <<>>, mask |-> <<>>, start |-> InvalidMemory,
     section |-> NullSectionPtr, SIZE |-> 0, build |-> "none"]

\* the start addresses tried: absent, and every address around the section
StartAddresses(m) == {InvalidMemory} \cup ((SectionBase - 1)..(SectionBase + Len(m)))

InitScan ==
    /\ mem \in UNION {[1..n -> Bytes] : n \in SectionSizes}
    /\ m_mapCached = EmptyCache
    /\ call = NoCall
    /\ ret = InvalidMemory
    /\ fromCache = FALSE
    /\ nCalls = 0
    /\ prevRet = InvalidMemory
    /\ prevCache = EmptyCache

DoFindPattern(c) ==
    LET r == FindPattern(m_mapCached, mem, SectionPtr(TextSection(mem)), c.SIZE,
                         c.pattern, c.mask, c.start, c.section)
    IN /\ call' = c
       /\ ret' = r.ret
       /\ m_mapCached' = r.cache
       /\ fromCache' = r.hit
       /\ nCalls' = nCalls + 1
       /\ prevRet' = ret
       /\ prevCache' = m_mapCached
       /\ UNCHANGED <<mem, cbCalls>>

\* the first FindPattern call on the module, with any arguments
ScanCall ==
    /\ nCalls = 0
    /\ \E n \in 0..MaxLen :
       \E pattern \in [1..n -> Bytes], svMask \in [1..n -> MaskChars],
          start \in StartAddresses(mem), SIZE \in RunBufSizes,
          sec \in {NullSectionPtr, SectionPtr(TextSection(mem))} :
            DoFindPattern([api |-> "FindPattern", pattern |-> pattern, mask |-> svMask,
                           start |-> start, section |-> sec, SIZE |-> SIZE,
                           build |-> "none"])

\* the same call made again on the same module
RepeatCall ==
    /\ nCalls > 0
    /\ nCalls < MaxCalls
    /\ call.api = "FindPattern"
    /\ DoFindPattern(call)

\* the call made again with the same bytes, start and section under another mask
MaskedCall ==
    /\ nCalls > 0
    /\ nCalls < MaxCalls
    /\ call.api = "FindPattern"
    /\ \E svMask \in [1..Len(call.mask) -> MaskChars] :
          /\ svMask # call.mask
          /\ DoFindPattern([call EXCEPT !.mask = svMask])

NextScan == ScanCall \/ RepeatCall \/ MaskedCall

\* a section of n zero bytes with a single 1 at offset h - 1 (none when h = 0)
HotSection(n, h) == [i \in 1..n |-> IF i = h THEN 1 ELSE 0]

InitSimd ==
    /\ \E n \in SimdSectionSizes : \E h \in 0..n : mem = HotSection(n, h)
    /\ m_mapCached = EmptyCache
    /\ call = NoCall
    /\ ret = InvalidMemory
    /\ fromCache = FALSE
    /\ nCalls = 0
    /\ prevRet = InvalidMemory
    /\ prevCache = EmptyCache

\* one CModule::FindPattern call, in one of the three builds
SimdCall ==
    /\ nCalls = 0
    /\ \E n \in 0..MaxSimdPatLen :
       \E pattern \in [1..n -> Bytes], mask \in [1..n -> MaskChars],
          start \in StartAddresses(mem), build \in Builds :
            /\ call' = [api |-> "CModule", pattern |-> pattern, mask |-> mask,
                        start |-> start, section |-> SectionPtr(TextSection(mem)),
                        SIZE |-> 0, build |-> build]
            /\ ret' = CModuleFindPattern(build, mem, TextSection(mem), pattern, mask, start)
            /\ nCalls' = nCalls + 1
            /\ prevRet' = ret
            /\ UNCHANGED <<mem, m_mapCached, fromCache, prevCache, cbCalls>>

NextSimd == SimdCall

-----------------------------------------------------------------------------
(* CModule::FindPatternSIMD of the single-file module.cpp: blocks of 16 mask
   bits, a first-and-last-byte test, one unaligned load per block *)

LongPatLen == 17                 \* a pattern of two blocks
LongSectionSizes == {17, 18, 33} \* sections a two-block pattern fits in

\* ModuleSections_t::IsSectionValid
IsSectionValid(sec) == sec.size # 0

\* iNumMasks = ceil(nMaskLen / 16.f)
NumMasks(nMaskLen) == (nMaskLen + SSE2Width - 1) \div SSE2Width

\* nMasks[i] as the set of its bits: bit j is set when szMask[i * 16 + j] is 'x'
MaskBits(szMask, i) ==
    {j \in 0..(SSE2Width - 1) :
        /\ i * SSE2Width + j < Len(szMask)
        /\ szMask[i * SSE2Width + j + 1] = "x"}

\* _mm_movemask_epi8(_mm_cmpeq_epi8(pattern + i * 16, pData + i * 16)) on the
\* lanes inside the pattern; the lanes beyond it are loaded from outside the
\* pattern and are masked by nMasks[i]
EqualBits(m, pData, pattern, i) ==
    {j \in 0..(SSE2Width - 1) :
        /\ i * SSE2Width + j < Len(pattern)
        /\ pattern[i * SSE2Width + j + 1] = ByteAt(m, pData + i * SSE2Width + j)}

\* (movemask & nMasks[i]) == nMasks[i] for every block
BlocksMatch(m, pData, pattern, szMask) ==
    \A i \in 0..(NumMasks(Len(szMask)) - 1) :
        MaskBits(szMask, i) \subseteq EqualBits(m, pData, pattern, i)

\* pattern[0] == pData[0] && pattern[nMaskLen - 1] == pData[nMaskLen - 1]
FirstLastTest(m, pData, pattern, nMaskLen) ==
    /\ pattern[1] = ByteAt(m, pData)
    /\ pattern[nMaskLen] = ByteAt(m, pData + nMaskLen - 1)

\* for (; pData != pEnd; ++pData)
RECURSIVE SimdScanLoop(_, _, _, _, _)
SimdScanLoop(m, pData, pEnd, pattern, szMask) ==
    IF pData = pEnd THEN InvalidMemory
    ELSE IF FirstLastTest(m, pData, pattern, Len(szMask))
            /\ BlocksMatch(m, pData, pattern, szMask)
         THEN pData
         ELSE SimdScanLoop(m, pData + 1, pEnd, pattern, szMask)

\* CModule::FindPatternSIMD(pPattern, szMask, startAddress, moduleSection);
\* overrun: pData starts above pEnd, the loop leaves the section
FindPatternSIMD(m, execSection, pattern, szMask, startAddress, moduleSection) ==
    LET section == IF moduleSection.isNull THEN execSection ELSE moduleSection
        nBase == section.base
        pEnd == nBase + section.size - Len(szMask)
        pData == IF startAddress # InvalidMemory THEN startAddress ELSE nBase
    IN  IF ~IsSectionValid(section)
        THEN [ret |-> InvalidMemory, overrun |-> FALSE]
        ELSE IF startAddress # InvalidMemory /\ (nBase > startAddress \/ startAddress > pEnd)
        THEN [ret |-> InvalidMemory, overrun |-> FALSE]
        ELSE IF pData > pEnd
        THEN [ret |-> InvalidMemory, overrun |-> TRUE]
        ELSE [ret |-> SimdScanLoop(m, pData, pEnd, pattern, szMask), overrun |-> FALSE]

\* the patterns of a run: every short pattern under every mask, and the
\* two-block patterns with one byte set, all known or with one wildcard
LongMasks(h) ==
    {[i \in 1..LongPatLen |-> IF i \in w THEN "?" ELSE "x"] :
        w \in {{}, {1}, {LongPatLen}, {h}} \ {{0}}}

InitSimdScan ==
    /\ mem \in UNION {[1..n -> Bytes] : n \in SectionSizes}
                \cup {HotSection(n, h) : n \in LongSectionSizes, h \in 0..LongPatLen}
    /\ m_mapCached = EmptyCache
    /\ call = NoCall
    /\ ret = InvalidMemory
    /\ fromCache = FALSE
    /\ nCalls = 0
    /\ prevRet = InvalidMemory
    /\ prevCache = EmptyCache

\* what a loop that left the section ends with: a fault, or a match it
\* found in the memory behind the section
OverrunOutcomes(m) ==
    {[ret |-> InvalidMemory, ended |-> FALSE],
     [ret |-> SectionBase + Len(m), ended |-> TRUE]}

\* one CModule::FindPatternSIMD call with pattern and mask
DoFindPatternSIMD(pattern, szMask, start, sec) ==
    LET r == FindPatternSIMD(mem, TextSection(mem), pattern, szMask, start, sec) IN
    \E out \in (IF r.overrun THEN OverrunOutcomes(mem)
                 ELSE {[ret |-> r.ret, ended |-> TRUE]}) :
       /\ call' = [api |-> "FindPatternSIMD", pattern |-> pattern, mask |-> szMask,
                   start |-> start, section |-> sec, SIZE |-> 0, build |-> "none",
                   ended |-> out.ended]
       /\ ret' = out.ret
       /\ nCalls' = nCalls + 1
       /\ prevRet' = ret
       /\ UNCHANGED <<mem, m_mapCached, fromCache, prevCache, cbCalls>>

\* a call with a pattern of one block
SimdScanCall ==
    /\ nCalls = 0
    /\ \E n \in 1..MaxLen :
       \E pattern \in [1..n -> Bytes], szMask \in [1..n -> MaskChars],
          start \in {InvalidMemory, SectionBase, SectionBase + 1},
          sec \in {NullSectionPtr, SectionPtr(TextSection(mem))} :
            DoFindPatternSIMD(pattern, szMask, start, sec)

\* a call with a pattern of two blocks
SimdLongCall ==
    /\ nCalls = 0
    /\ \E h \in 0..LongPatLen :
       \E szMask \in LongMasks(h), start \in {InvalidMemory, SectionBase + 1} :
            DoFindPatternSIMD(HotSection(LongPatLen, h), szMask, start,
                              SectionPtr(TextSection(mem)))

NextSimdScan == SimdScanCall \/ SimdLongCall

-----------------------------------------------------------------------------
(* Virtual tables, function pointers and page protection *)

PtrSize == 8                    \* sizeof(void*)
PageSize == 4096                \* sysconf(_SC_PAGESIZE)
DYNLIB_INVALID_VCALL == -1
Trampoline == 300               \* the lambda CVTFMHook::AddHook installs

Views == {1, 2}                 \* two virtual tables (two classes)
Indices == {0, 1}               \* the slots of each table
Hooks == 1..NumHooks
\* the table the stand-alone CVTHook objects hook, and the function they install
HookViews == {1}
HookFns == {201}

\* CVirtualTable::m_pVTFs of view v; every table lies in a page of its own
VTableAddr(v) == v * PageSize
\* &pVTable.GetMethod<void *>(nIndex)
SlotAddr(v, nIndex) == VTableAddr(v) + nIndex * PtrSize
SlotAddrs == {SlotAddr(v, i) : v \in Views, i \in Indices}
PageOf(addr) == addr \div PageSize

\* the function the class itself defines for slot nIndex of view v
OrigFn(v, nIndex) == 100 + 10 * v + nIndex
\* replacement functions handed to CVTHook::Hook and CVTMHook::AddHook
RawFns == {201, 202}

\* VirtualUnprotector: constructed and destroyed around one store to pTarget.
\* POSIX: mprotect(READ|WRITE), then mprotect(m_nOldProtect = PROT_READ).
\* Windows: VirtualProtect(PAGE_EXECUTE_READWRITE, &m_nOldProtect), then back.
VirtualUnprotector(p, plat, pTarget) ==
    IF plat = "posix" THEN [p EXCEPT ![PageOf(pTarget)] = "r"] ELSE p

-----------------------------------------------------------------------------
(* CVTHook *)

NoHook == [ptr |-> InvalidMemory, orig |-> InvalidMemory]

\* CVTHook::IsHooked : CMemory::IsValid
IsHooked(h) == h.ptr # InvalidMemory

\* CVTHook::HookImpl : *GetTargetPtr() = pfnTarget
HookImpl(vt, h, pfnTarget) == [vt EXCEPT ![h.ptr] = pfnTarget]

\* CVTHook::UnhookImpl : *GetTargetPtr<void **>() = m_pOriginalFn.GetPtr()
UnhookImpl(vt, h) == [vt EXCEPT ![h.ptr] = h.orig]

\* a faulty Hook: m_pOriginalFn is read after the slot has been overwritten
HookBodyStoreFirst(vt, h, v, nIndex, pFn) ==
    LET h1 == [ptr |-> SlotAddr(v, nIndex), orig |-> pFn]
    IN [hook |-> h1, vt |-> HookImpl(vt, h1, pFn),
        writes |-> <<[addr |-> h1.ptr, val |-> pFn]>>]

\* CVTHook::Hook once its assertions have passed
HookBody(vt, h, v, nIndex, pFn) ==
    LET h1 == [ptr |-> SlotAddr(v, nIndex), orig |-> vt[SlotAddr(v, nIndex)]]
    IN [hook |-> h1, vt |-> HookImpl(vt, h1, pFn),
        writes |-> <<[addr |-> h1.ptr, val |-> pFn]>>]

\* CVTHook::Clear
ClearBody(h) == NoHook

\* a faulty Unhook: Clear() without UnhookImpl()
UnhookBodyNoRestore(vt, h) ==
    IF ~IsHooked(h)
    THEN [hook |-> h, vt |-> vt, ret |-> FALSE, writes |-> <<>>]
    ELSE [hook |-> ClearBody(h), vt |-> vt, ret |-> TRUE, writes |-> <<>>]

\* CVTHook::Unhook
UnhookBody(vt, h) ==
    IF ~IsHooked(h)
    THEN [hook |-> h, vt |-> vt, ret |-> FALSE, writes |-> <<>>]
    ELSE [hook |-> ClearBody(h), vt |-> UnhookImpl(vt, h), ret |-> TRUE,
          writes |-> <<[addr |-> h.ptr, val |-> h.orig]>>]

\* CVTHook::~CVTHook
DestroyBody(vt, h) ==
    IF IsHooked(h)
    THEN [vt |-> UnhookImpl(vt, h), writes |-> <<[addr |-> h.ptr, val |-> h.orig]>>]
    ELSE [vt |-> vt, writes |-> <<>>]

\* a faulty move constructor: other keeps its slot address and original
MoveBodyCopy(other) == [new |-> other, other |-> other]

\* CVTHook(CVTHook &&other): the new object, and what is left of other
MoveBody(other) == [new |-> other, other |-> NoHook]

\* the protection after the VirtualUnprotector of every store of a sequence
RECURSIVE ProtAfter(_, _, _)
ProtAfter(p, plat, writes) ==
    IF writes = <<>> THEN p
    ELSE ProtAfter(VirtualUnprotector(p, plat, Head(writes).addr), plat, Tail(writes))

-----------------------------------------------------------------------------
(* The CVTHook objects of a run *)

NoOp == [op |-> "none", obj |-> 0, ret |-> FALSE, writes |-> <<>>, was |-> "none",
         slot |-> 0, fn |-> 0, before |-> 0]
NoTrack == [status |-> "none", slot |-> 0, before |-> 0, inst |-> 0]

InitTables ==
    /\ vtmem = [a \in SlotAddrs |->
                  CHOOSE f \in {OrigFn(v, i) : v \in Views, i \in Indices} :
                     \E v \in Views, i \in Indices : a = SlotAddr(v, i) /\ f = OrigFn(v, i)]
    /\ prot = [pg \in {PageOf(a) : a \in SlotAddrs} |-> "r"]
    /\ platform = "posix"
    /\ aborted = FALSE
    /\ last = NoOp

\* protections a page holding a virtual table can have before a hook is set
PageProts == {"r", "rw", "rx"}
Platforms == {"posix", "windows"}

\* the tables of InitTables on pages of any protection, on either platform
InitPages ==
    /\ vtmem = [a \in SlotAddrs |->
                  CHOOSE f \in {OrigFn(v, i) : v \in Views, i \in Indices} :
                     \E v \in Views, i \in Indices : a = SlotAddr(v, i) /\ f = OrigFn(v, i)]
    /\ prot \in [{PageOf(a) : a \in SlotAddrs} -> PageProts]
    /\ platform \in Platforms
    /\ aborted = FALSE
    /\ last = NoOp

InitHooks ==
    /\ hooks = [h \in Hooks |-> [life |-> "unborn", ptr |-> 0, orig |-> 0]]
    /\ track = [h \in Hooks |-> NoTrack]
    /\ installs = <<>>

InitNoScan ==
    /\ cbCalls = <<>>
    /\ mem = <<0>>
    /\ m_mapCached = EmptyCache
    /\ call = NoCall
    /\ ret = InvalidMemory
    /\ fromCache = FALSE
    /\ nCalls = 0
    /\ prevRet = InvalidMemory
    /\ prevCache = EmptyCache

scanVars == <<mem, m_mapCached, call, ret, fromCache, nCalls, prevRet, prevCache,
              cbCalls>>
tableVars == <<vtmem, prot, platform, aborted, last>>
hookVars == <<hooks, track, installs>>

Alive(h) == hooks[h].life = "alive"
Fields(h) == [ptr |-> hooks[h].ptr, orig |-> hooks[h].orig]
WithFields(h, f, life) ==
    [hooks EXCEPT ![h] = [life |-> life, ptr |-> f.ptr, orig |-> f.orig]]

\* CVTHook() = default
Construct(h) ==
    /\ ~aborted
    /\ hooks[h].life = "unborn"
    /\ \A k \in Hooks : k < h => hooks[k].life # "unborn"
    /\ hooks' = WithFields(h, NoHook, "alive")
    /\ track' = [track EXCEPT ![h].status = "fresh"]
    /\ last' = [NoOp EXCEPT !.op = "Construct", !.obj = h]
    /\ UNCHANGED <<vtmem, prot, platform, aborted, installs>>

\* CVTHook::Hook(pVTable, nIndex, pFn)
Hook(h, v, nIndex, pFn) ==
    /\ ~aborted
    /\ Alive(h)
    /\ IF IsHooked(Fields(h)) \/ nIndex = DYNLIB_INVALID_VCALL
       THEN \* assert(!IsHooked()) or assert(nIndex != DYNLIB_INVALID_VCALL) fails
            /\ aborted' = TRUE
            /\ last' = [NoOp EXCEPT !.op = "Hook", !.obj = h, !.was = track[h].status,
                                    !.slot = SlotAddr(v, nIndex), !.fn = pFn]
            /\ UNCHANGED <<vtmem, prot, platform, hooks, track, installs>>
       ELSE /\ Len(installs) < MaxInstalls
            /\ LET r == HookBody(vtmem, Fields(h), v, nIndex, pFn) IN
               /\ vtmem' = r.vt
               /\ prot' = ProtAfter(prot, platform, r.writes)
               /\ hooks' = WithFields(h, r.hook, "alive")
               /\ track' = [track EXCEPT ![h] =
                              [status |-> "hooked", slot |-> SlotAddr(v, nIndex),
                               before |-> vtmem[SlotAddr(v, nIndex)],
                               inst |-> Len(installs) + 1]]
               /\ installs' = Append(installs, [holder |-> h, restores |-> 0, by |-> 0])
               /\ last' = [NoOp EXCEPT !.op = "Hook", !.obj = h, !.was = track[h].status,
                              !.slot = SlotAddr(v, nIndex), !.fn = pFn,
                              !.before = vtmem[SlotAddr(v, nIndex)],
                              !.writes = r.writes]
               /\ UNCHANGED <<platform, aborted>>

\* the restore counted for the installation object h holds, when it stored
Restored(h, writes) ==
    IF writes = <<>> \/ track[h].inst = 0 THEN installs
    ELSE [installs EXCEPT ![track[h].inst].restores = @ + Len(writes),
                          ![track[h].inst].by = h]

\* CVTHook::Unhook()
Unhook(h) ==
    /\ ~aborted
    /\ Alive(h)
    /\ LET r == UnhookBody(vtmem, Fields(h)) IN
       /\ vtmem' = r.vt
       /\ prot' = ProtAfter(prot, platform, r.writes)
       /\ hooks' = WithFields(h, r.hook, "alive")
       /\ track' = IF r.ret THEN [track EXCEPT ![h] = [NoTrack EXCEPT !.status = "unhooked"]]
                    ELSE track
       /\ installs' = Restored(h, r.writes)
       /\ last' = [NoOp EXCEPT !.op = "Unhook", !.obj = h, !.was = track[h].status,
                               !.slot = track[h].slot, !.before = track[h].before,
                               !.ret = r.ret, !.writes = r.writes]
       /\ UNCHANGED <<platform, aborted>>

\* CVTHook::Clear()
Clear(h) ==
    /\ ~aborted
    /\ Alive(h)
    /\ hooks' = WithFields(h, ClearBody(Fields(h)), "alive")
    /\ track' = [track EXCEPT ![h] = [NoTrack EXCEPT !.status = "cleared"]]
    /\ installs' = IF track[h].inst = 0 THEN installs
                   ELSE [installs EXCEPT ![track[h].inst].holder = 0]
    /\ last' = [NoOp EXCEPT !.op = "Clear", !.obj = h, !.was = track[h].status]
    /\ UNCHANGED <<vtmem, prot, platform, aborted>>

\* CVTHook(CVTHook &&other) constructs object h from object other
MoveConstruct(h, other) ==
    /\ ~aborted
    /\ hooks[h].life = "unborn"
    /\ \A k \in Hooks : k < h => hooks[k].life # "unborn"
    /\ Alive(other)
    /\ LET r == MoveBody(Fields(other)) IN
       /\ hooks' = [hooks EXCEPT
                      ![h] = [life |-> "alive", ptr |-> r.new.ptr, orig |-> r.new.orig],
                      ![other] = [life |-> "alive", ptr |-> r.other.ptr,
                                  orig |-> r.other.orig]]
       /\ track' = [track EXCEPT
                      ![h] = [track[other] EXCEPT
                                !.status = IF track[other].status \in {"hooked", "movedTo"}
                                           THEN "movedTo" ELSE "fresh"],
                      ![other] = [NoTrack EXCEPT !.status = "movedFrom"]]
       /\ installs' = IF track[other].inst = 0 THEN installs
                      ELSE [installs EXCEPT ![track[other].inst].holder = h]
       /\ last' = [NoOp EXCEPT !.op = "Move", !.obj = h, !.was = track[other].status]
       /\ UNCHANGED <<vtmem, prot, platform, aborted>>

\* CVTHook::~CVTHook()
Destroy(h) ==
    /\ ~aborted
    /\ Alive(h)
    /\ LET r == DestroyBody(vtmem, Fields(h)) IN
       /\ vtmem' = r.vt
       /\ prot' = ProtAfter(prot, platform, r.writes)
       /\ hooks' = WithFields(h, NoHook, "dead")
       /\ track' = [track EXCEPT ![h] = [NoTrack EXCEPT !.status = "destroyed"]]
       /\ installs' = Restored(h, r.writes)
       /\ last' = [NoOp EXCEPT !.op = "Destroy", !.obj = h, !.was = track[h].status,
                               !.slot = track[h].slot, !.before = track[h].before,
                               !.writes = r.writes]
       /\ UNCHANGED <<platform, aborted>>

NextHook ==
    \/ \E h \in Hooks : Construct(h) /\ UNCHANGED scanVars
    \/ \E h \in Hooks, v \in HookViews, i \in Indices \cup {DYNLIB_INVALID_VCALL},
          f \in HookFns : Hook(h, v, i, f) /\ UNCHANGED scanVars
    \/ \E h \in Hooks : Unhook(h) /\ UNCHANGED scanVars
    \/ \E h \in Hooks : Clear(h) /\ UNCHANGED scanVars
    \/ \E h \in Hooks, other \in Hooks : MoveConstruct(h, other) /\ UNCHANGED scanVars
    \/ \E h \in Hooks : Destroy(h) /\ UNCHANGED scanVars

-----------------------------------------------------------------------------
(* CVTMHookBase (CVTMHook) and CVTFMHook *)

Managers == {"CVTMHook", "CVTFMHook"}
\* the std::function callbacks handed to CVTFMHook::AddHook; a callback returns
\* its own number
Callbacks == {401, 402}

\* std::multimap::emplace : entries are ordered by key, equal keys by insertion
Emplace(storage, key, elem) ==
    LET n == Cardinality({k \in 1..Len(storage) : storage[k].key <= key}) IN
    SubSeq(storage, 1, n)
        \o <<[key |-> key, ptr |-> elem.ptr, orig |-> elem.orig]>>
        \o SubSeq(storage, n + 1, Len(storage))

\* CVTMHookBase::AddHook : Element_t vth; vth.Hook(...); emplace(pVTable,
\* std::move(vth)); then the moved-from vth is destroyed
BaseAddHook(vt, storage, v, nIndex, vfunc) ==
    LET hooked == HookBody(vt, NoHook, v, nIndex, vfunc)
        moved == MoveBody(hooked.hook)
        dropped == DestroyBody(hooked.vt, moved.other)
    IN [vt |-> dropped.vt, storage |-> Emplace(storage, v, moved.new)]

\* the element destructors std::multimap::erase(key) runs, first to last of
\* the key's range (the order of libstdc++, libc++ and the MSVC library)
RECURSIVE EraseRange(_, _)
EraseRange(vt, elems) ==
    IF elems = <<>> THEN vt
    ELSE EraseRange(DestroyBody(vt, Head(elems)).vt, Tail(elems))

\* CVTMHookBase::RemoveHook : m_storage.erase(pVTable)
BaseRemoveHook(vt, storage, v) ==
    LET range == SelectSeq(storage, LAMBDA e : e.key = v) IN
    [vt |-> EraseRange(vt, range),
     storage |-> SelectSeq(storage, LAMBDA e : e.key # v),
     ret |-> Len(range)]

\* a faulty trampoline: it returns the first callback's result
TrampolineBodyFirstResult(cbs, v) ==
    IF v \notin DOMAIN cbs
    THEN [found |-> FALSE, invoked |-> <<>>, result |-> 0]
    ELSE [found |-> TRUE, invoked |-> cbs[v],
          result |-> IF cbs[v] = <<>> THEN 0 ELSE cbs[v][1]]

\* the lambda CVTFMHook::AddHook installs, called on an object of view v
TrampolineBody(cbs, v) ==
    IF v \notin DOMAIN cbs
    THEN [found |-> FALSE, invoked |-> <<>>, result |-> 0]
    ELSE [found |-> TRUE, invoked |-> cbs[v],
          result |-> IF cbs[v] = <<>> THEN 0 ELSE cbs[v][Len(cbs[v])]]

\* CVTFMHook::AddHook
FAddHookBody(vt, storage, cbs, v, nIndex, funcCallback) ==
    LET base == BaseAddHook(vt, storage, v, nIndex, Trampoline) IN
    [vt |-> base.vt, storage |-> base.storage,
     cbs |-> IF v \in DOMAIN cbs
             THEN [cbs EXCEPT ![v] = Append(@, funcCallback)]
             ELSE cbs @@ (v :> <<funcCallback>>)]

\* CVTFMHook::RemoveHook
FRemoveHookBody(vt, storage, cbs, v) ==
    LET base == BaseRemoveHook(vt, storage, v) IN
    [vt |-> base.vt, storage |-> base.storage,
     cbs |-> [k \in DOMAIN cbs \ {v} |-> cbs[k]],
     ret |-> base.ret # 0]

NoMOp == [op |-> "none", view |-> 0, index |-> 0, invoked |-> <<>>, result |-> 0,
          expect |-> <<>>, found |-> TRUE]

multiVars == <<manager, m_storage, sm_vcallbacks, added, firstBefore, nAdds, mlast>>

InitNoMulti ==
    /\ manager = "none"
    /\ m_storage = <<>>
    /\ sm_vcallbacks = <<>>
    /\ added = <<>>
    /\ firstBefore = <<>>
    /\ nAdds = 0
    /\ mlast = NoMOp

InitMulti ==
    /\ InitNoScan /\ InitTables /\ InitHooks
    /\ InitNoExt
    /\ manager \in Managers
    /\ m_storage = <<>>
    /\ sm_vcallbacks = <<>>
    /\ added = [a \in SlotAddrs |-> <<>>]
    /\ firstBefore = [a \in SlotAddrs |-> InvalidMemory]
    /\ nAdds = 0
    /\ mlast = NoMOp

\* history kept by both AddHook actions
NoteAdd(v, nIndex, f) ==
    LET a == SlotAddr(v, nIndex) IN
    /\ added' = [added EXCEPT ![a] = Append(@, f)]
    /\ firstBefore' = IF added[a] = <<>> THEN [firstBefore EXCEPT ![a] = vtmem[a]]
                      ELSE firstBefore
    /\ nAdds' = nAdds + 1
    /\ mlast' = [NoMOp EXCEPT !.op = "AddHook", !.view = v, !.index = nIndex]

\* history kept by both RemoveHook actions
NoteRemove(v) ==
    /\ added' = [a \in SlotAddrs |->
                   IF \E i \in Indices : a = SlotAddr(v, i) THEN <<>> ELSE added[a]]
    /\ firstBefore' = [a \in SlotAddrs |->
                   IF \E i \in Indices : a = SlotAddr(v, i) THEN InvalidMemory
                   ELSE firstBefore[a]]
    /\ mlast' = [NoMOp EXCEPT !.op = "RemoveHook", !.view = v,
                              !.expect = [i \in Indices |-> firstBefore[SlotAddr(v, i)]]]
    /\ UNCHANGED nAdds

\* CVTMHook::AddHook(pVTable, nIndex, vfunc)
MAddHook(v, nIndex, vfunc) ==
    /\ ~aborted
    /\ manager = "CVTMHook"
    /\ nAdds < MaxAdds
    /\ LET r == BaseAddHook(vtmem, m_storage, v, nIndex, vfunc) IN
       /\ vtmem' = r.vt
       /\ m_storage' = r.storage
    /\ NoteAdd(v, nIndex, vfunc)
    /\ UNCHANGED <<sm_vcallbacks, manager, prot, platform, aborted, last>>

\* CVTMHook::RemoveHook(pVTable)
MRemoveHook(v) ==
    /\ ~aborted
    /\ manager = "CVTMHook"
    /\ LET r == BaseRemoveHook(vtmem, m_storage, v) IN
       /\ vtmem' = r.vt
       /\ m_storage' = r.storage
    /\ NoteRemove(v)
    /\ UNCHANGED <<sm_vcallbacks, manager, prot, platform, aborted, last>>

\* CVTFMHook::AddHook(pVTable, nIndex, funcCallback)
FAddHook(v, nIndex, funcCallback) ==
    /\ ~aborted
    /\ manager = "CVTFMHook"
    /\ nAdds < MaxAdds
    /\ LET r == FAddHookBody(vtmem, m_storage, sm_vcallbacks, v, nIndex, funcCallback) IN
       /\ vtmem' = r.vt
       /\ m_storage' = r.storage
       /\ sm_vcallbacks' = r.cbs
    /\ NoteAdd(v, nIndex, funcCallback)
    /\ UNCHANGED <<manager, prot, platform, aborted, last>>

\* CVTFMHook::RemoveHook(pVTable)
FRemoveHook(v) ==
    /\ ~aborted
    /\ manager = "CVTFMHook"
    /\ LET r == FRemoveHookBody(vtmem, m_storage, sm_vcallbacks, v) IN
       /\ vtmem' = r.vt
       /\ m_storage' = r.storage
       /\ sm_vcallbacks' = r.cbs
    /\ NoteRemove(v)
    /\ UNCHANGED <<manager, prot, platform, aborted, last>>

\* a virtual call of method nIndex on an object whose class has table v:
\* the function in the slot runs
CallSlot(v, nIndex) ==
    /\ ~aborted
    /\ mlast.op # "Call"
    /\ LET target == vtmem[SlotAddr(v, nIndex)]
           r == IF target = Trampoline THEN TrampolineBody(sm_vcallbacks, v)
                ELSE [found |-> TRUE, invoked |-> <<target>>, result |-> target]
       IN /\ aborted' = ~r.found         \* assert(found != sm_vcallbacks.cend())
          /\ mlast' = [NoMOp EXCEPT !.op = "Call", !.view = v, !.index = nIndex,
                                    !.invoked = r.invoked, !.result = r.result,
                                    !.found = r.found]
    /\ UNCHANGED <<vtmem, prot, platform, last, manager, m_storage, sm_vcallbacks,
                   added, firstBefore, nAdds>>

NextMulti ==
    \/ \E v \in Views, i \in Indices, f \in RawFns : MAddHook(v, i, f)
    \/ \E v \in Views : MRemoveHook(v)
    \/ \E v \in Views, i \in Indices, cb \in Callbacks : FAddHook(v, i, cb)
    \/ \E v \in Views : FRemoveHook(v)
    \/ \E v \in Views, i \in Indices : CallSlot(v, i)

InitHook == InitNoScan /\ InitTables /\ InitHooks

InitNoHook ==
    /\ vtmem = [a \in {} |-> 0]
    /\ prot = [a \in {} |-> "r"]
    /\ platform = "posix"
    /\ aborted = FALSE
    /\ last = NoOp
    /\ InitHooks

-----------------------------------------------------------------------------
(* CSignatureView and CAssemblyModule::FindAllPatterns *)

\* two pointer-sized cells outside the section, for CMemory::Deref
PtrCellA == 32
PtrCellB == 40
Offsets == {-1, 1}              \* offset arguments of OffsetAndFind
DerefLevels == {1, 2}           \* deref arguments of DerefAndFind
StopIndices == {-1, 0, 1}       \* the index at which the callback returns false
                                \* (-1: it always returns true)

\* *reinterpret_cast<std::uintptr_t*>(a): cell A points to cell B, cell B into
\* the section, every word read inside the section points to cell A
WordAt(m, a) ==
    IF a = PtrCellA THEN PtrCellB
    ELSE IF a = PtrCellB THEN SectionBase + 1
    ELSE IF a \in SectionBase..(SectionBase + Len(m) - 1) THEN PtrCellA
    ELSE InvalidMemory

\* CMemory::Deref(deref) with offset = 0
RECURSIVE Deref(_, _, _)
Deref(m, base, deref) ==
    IF deref = 0 THEN base ELSE Deref(m, WordAt(m, base), deref - 1)

\* CMemory::Offset
Offset(addr, offset) == addr + offset

\* CSignatureView::Find
SigFind(cache, m, SIZE, pattern, svMask, pStart, pSection) ==
    FindPattern(cache, m, SectionPtr(TextSection(m)), SIZE, pattern, svMask,
                pStart, pSection)

\* CSignatureView::OffsetAndFind : Find(pStart + offset, pSection)
OffsetAndFind(cache, m, SIZE, pattern, svMask, offset, pStart, pSection) ==
    SigFind(cache, m, SIZE, pattern, svMask, Offset(pStart, offset), pSection)

\* CSignatureView::OffsetFromSelfAndFind : OffsetAndFind(m_nSize, ...)
OffsetFromSelfAndFind(cache, m, SIZE, pattern, svMask, pStart, pSection) ==
    OffsetAndFind(cache, m, SIZE, pattern, svMask, Len(svMask), pStart, pSection)

\* CSignatureView::DerefAndFind : Find(pStart.Deref(deref), pSection)
DerefAndFind(cache, m, SIZE, pattern, svMask, deref, pStart, pSection) ==
    SigFind(cache, m, SIZE, pattern, svMask, Deref(m, pStart, deref), pSection)

\* the callback of a run: it returns false at index stopAt
Callback(stopAt, index, match) == index # stopAt

\* the do-while loop of FindAllPatterns, entered with pIter and foundCount
RECURSIVE FindAllLoop(_, _, _, _, _, _, _, _, _, _)
FindAllLoop(cache, m, SIZE, pattern, svMask, pSection, stopAt, pIter, foundCount, calls) ==
    LET calls1 == Append(calls, [index |-> foundCount, match |-> pIter]) IN
    IF ~Callback(stopAt, foundCount, pIter)
    THEN [ret |-> foundCount, calls |-> calls1, cache |-> cache]
    ELSE LET r == OffsetFromSelfAndFind(cache, m, SIZE, pattern, svMask, pIter, pSection) IN
         IF r.ret # InvalidMemory
         THEN FindAllLoop(r.cache, m, SIZE, pattern, svMask, pSection, stopAt,
                          r.ret, foundCount + 1, calls1)
         ELSE [ret |-> foundCount + 1, calls |-> calls1, cache |-> r.cache]

\* CAssemblyModule::FindAllPatterns(sig, callback, pStartAddress, pModuleSection)
FindAllPatterns(cache, m, SIZE, pattern, svMask, stopAt, pStartAddress, pModuleSection) ==
    LET pSection == IF pModuleSection.isNull THEN SectionPtr(TextSection(m))
                    ELSE pModuleSection
    IN
    IF pSection.isNull \/ ~SectionIsValid(pSection)
    THEN [ret |-> 0, calls |-> <<>>, cache |-> cache]
    ELSE LET pIter == IF pStartAddress # InvalidMemory THEN pStartAddress
                      ELSE pSection.base
             first == SigFind(cache, m, SIZE, pattern, svMask, pIter, pSection)
         IN FindAllLoop(first.cache, m, SIZE, pattern, svMask, pSection, stopAt,
                        first.ret, 0, <<>>)

\* the record of one call on a signature
SigCallRecord(api, pattern, svMask, start, sec, SIZE, arg) ==
    [api |-> api, pattern |-> pattern, mask |-> svMask, start |-> start,
     section |-> sec, SIZE |-> SIZE, build |-> "none", arg |-> arg]

InitSig ==
    /\ InitScan
    /\ cbCalls = <<>>
    /\ InitNoHook
    /\ InitNoMulti
    /\ InitNoExt

\* sig.Find(pStart, pSection)
SigFindCall ==
    /\ nCalls = 0
    /\ \E n \in 1..MaxLen :
       \E pattern \in [1..n -> Bytes], svMask \in [1..n -> MaskChars],
          start \in StartAddresses(mem), SIZE \in RunBufSizes :
            LET sec == SectionPtr(TextSection(mem))
                r == SigFind(m_mapCached, mem, SIZE, pattern, svMask, start, sec)
            IN /\ call' = SigCallRecord("Find", pattern, svMask, start, sec, SIZE, 0)
               /\ ret' = r.ret
               /\ m_mapCached' = r.cache
    /\ nCalls' = nCalls + 1
    /\ UNCHANGED <<mem, fromCache, prevRet, prevCache, cbCalls>>

\* sig.OffsetAndFind(offset, pStart, pSection)
OffsetAndFindCall ==
    /\ nCalls = 0
    /\ \E n \in 1..MaxLen :
       \E pattern \in [1..n -> Bytes], svMask \in [1..n -> MaskChars],
          start \in StartAddresses(mem), SIZE \in RunBufSizes, offset \in Offsets :
            LET sec == SectionPtr(TextSection(mem))
                r == OffsetAndFind(m_mapCached, mem, SIZE, pattern, svMask, offset,
                                   start, sec)
            IN /\ call' = SigCallRecord("OffsetAndFind", pattern, svMask, start, sec,
                                        SIZE, offset)
               /\ ret' = r.ret
               /\ m_mapCached' = r.cache
    /\ nCalls' = nCalls + 1
    /\ UNCHANGED <<mem, fromCache, prevRet, prevCache, cbCalls>>

\* sig.DerefAndFind(deref, pStart, pSection), pStart a readable cell
DerefAndFindCall ==
    /\ nCalls = 0
    /\ \E n \in 1..MaxLen :
       \E pattern \in [1..n -> Bytes], svMask \in [1..n -> MaskChars],
          start \in {PtrCellA, PtrCellB} \cup (SectionBase..(SectionBase + Len(mem) - 1)),
          SIZE \in RunBufSizes, deref \in DerefLevels :
            LET sec == SectionPtr(TextSection(mem))
                r == DerefAndFind(m_mapCached, mem, SIZE, pattern, svMask, deref,
                                  start, sec)
            IN /\ call' = SigCallRecord("DerefAndFind", pattern, svMask, start, sec,
                                        SIZE, deref)
               /\ ret' = r.ret
               /\ m_mapCached' = r.cache
    /\ nCalls' = nCalls + 1
    /\ UNCHANGED <<mem, fromCache, prevRet, prevCache, cbCalls>>

\* module.FindAllPatterns(sig, callback, pStartAddress, pModuleSection); an
\* empty signature is left out: the loop then runs until assert(1000 > foundCount)
FindAllCall ==
    /\ nCalls = 0
    /\ \E n \in 1..MaxLen :
       \E pattern \in [1..n -> Bytes], svMask \in [1..n -> MaskChars],
          start \in StartAddresses(mem), SIZE \in RunBufSizes, stopAt \in StopIndices,
          sec \in {NullSectionPtr, SectionPtr(TextSection(mem))} :
            LET r == FindAllPatterns(m_mapCached, mem, SIZE, pattern, svMask, stopAt,
                                     start, sec)
            IN /\ call' = SigCallRecord("FindAllPatterns", pattern, svMask, start, sec,
                                        SIZE, stopAt)
               /\ ret' = r.ret
               /\ cbCalls' = r.calls
               /\ m_mapCached' = r.cache
    /\ nCalls' = nCalls + 1
    /\ UNCHANGED <<mem, fromCache, prevRet, prevCache>>

NextSig == SigFindCall \/ OffsetAndFindCall \/ DerefAndFindCall \/ FindAllCall

-----------------------------------------------------------------------------
(* Pattern strings and the two parsers: ParseStringPattern, ParsePattern *)

MaxStrLen == 5       \* characters of a pattern string

PatternChars == {"1", "A", "b", "?", " ", "g"}  \* characters drawn for pattern strings
RuntimeSizes == {5, 13}          \* the template argument N of ParsePattern<N>
AssertBuilds == {"debug", "release"}   \* assert() compiled in, or NDEBUG

INVALID_DYNLIB_BYTE == 255
Nul == "nul"         \* the null character: ends a literal, fills a fresh mask

DecDigits == <<"0", "1", "2", "3", "4", "5", "6", "7", "8", "9">>
UpperHex == <<"A", "B", "C", "D", "E", "F">>
LowerHex == <<"a", "b", "c", "d", "e", "f">>

Range(q) == {q[i] : i \in 1..Len(q)}
\* c - q[1] for a character c of the run of characters q
CharDiff(q, c) == (CHOOSE i \in 1..Len(q) : q[i] = c) - 1

funcIsHexDigit(c) ==
    c \in Range(DecDigits) \/ c \in Range(UpperHex) \/ c \in Range(LowerHex)

\* only ever applied to a hexadecimal digit
funcHexCharToByte(c) ==
    IF c \in Range(DecDigits) THEN CharDiff(DecDigits, c)
    ELSE IF c \in Range(UpperHex) THEN CharDiff(UpperHex, c) + 10
    ELSE CharDiff(LowerHex, c) + 10

funcGetHexByte(c) ==
    IF c \in Range(DecDigits) THEN CharDiff(DecDigits, c)
    ELSE IF c \in Range(LowerHex) THEN 10 + CharDiff(LowerHex, c)
    ELSE IF c \in Range(UpperHex) THEN 10 + CharDiff(UpperHex, c)
    ELSE INVALID_DYNLIB_BYTE

\* the two nibbles in the wrong order
ShiftOrSwapped(hi, lo) == (lo * 16 + hi) % 256

\* (hi << 4) | lo on two nibbles, kept in eight bits
ShiftOr(hi, lo) == (hi * 16 + lo) % 256

\* Pattern_t<SIZE> result{} : arrays of SIZE cells, all zero.  oob records a
\* store past the last cell, aborted a failed assert().
Pattern_t(SIZE) ==
    [m_nSize |-> 0,
     m_aBytes |-> [i \in 1..SIZE |-> 0],
     m_aMask |-> [i \in 1..SIZE |-> Nul],
     oob |-> FALSE,
     aborted |-> FALSE]

\* aBytes[nIndex] = byte; aMask[nIndex] = maskChar
StoreCell(result, SIZE, nIndex, byte, maskChar) ==
    IF nIndex < SIZE
    THEN [result EXCEPT !.m_aBytes[nIndex + 1] = byte,
                        !.m_aMask[nIndex + 1] = maskChar]
    ELSE [result EXCEPT !.oob = TRUE]

\* the compile-time parser; szInput is the literal with its null character,
\* nIndex is result.m_nSize passed by reference
RECURSIVE ProcessStringPattern(_, _, _, _, _, _)
ProcessStringPattern(INDEX, szInput, N, SIZE, n, result) ==
    LET nLength == N - 1
        c == szInput[n + 1]
        nIndex == result.m_nSize
        Stored(byte, maskChar) ==
            [StoreCell(result, SIZE, nIndex, byte, maskChar)
                EXCEPT !.m_nSize = nIndex + 1]
    IN  IF ~(INDEX < nLength) THEN result
        ELSE IF c = " "
        THEN ProcessStringPattern(INDEX + 1, szInput, N, SIZE, n + 1, result)
        ELSE IF c = "?"
        THEN LET n2 == IF n + 1 < nLength /\ szInput[n + 2] = "?"
                       THEN n + 2 ELSE n + 1
             IN  ProcessStringPattern(INDEX + 1, szInput, N, SIZE, n2,
                                      Stored(0, "?"))
        ELSE IF funcIsHexDigit(c)
        THEN IF n + 1 < nLength
             THEN LET c2 == szInput[n + 2]
                  IN  IF funcIsHexDigit(c2)
                      THEN ProcessStringPattern(INDEX + 1, szInput, N, SIZE, n + 2,
                               Stored(ShiftOr(funcHexCharToByte(c),
                                              funcHexCharToByte(c2)), "x"))
                      ELSE result
             ELSE result
        ELSE result

\* ParseStringPattern(szInput) on a literal of N - 1 characters
ParseStringPattern(szInput, N) ==
    LET SIZE == (N - 1) \div 2
    IN  ProcessStringPattern(0, szInput, N, SIZE, 0, Pattern_t(SIZE))

\* the while loop of ParsePattern and the two stores after it
RECURSIVE ParseLoop(_, _, _, _, _, _, _)
ParseLoop(N, SIZE, svInput, build, n, nOut, result) ==
    IF ~(n < Len(svInput) /\ nOut < N)
    THEN [result EXCEPT !.m_aMask = IF nOut < SIZE
                                    THEN [@ EXCEPT ![nOut + 1] = Nul] ELSE @,
                        !.oob = @ \/ ~(nOut < SIZE),
                        !.m_nSize = nOut]
    ELSE IF svInput[n + 1] = "?"
    THEN LET n2 == IF n + 1 < Len(svInput) /\ svInput[n + 2] = "?"
                   THEN n + 2 ELSE n + 1
         IN  ParseLoop(N, SIZE, svInput, build, n2 + 1, nOut + 1,
                       StoreCell(result, SIZE, nOut, 0, "?"))
    ELSE IF n + 1 < Len(svInput)
    THEN LET nLeft == funcGetHexByte(svInput[n + 1])
             nRight == funcGetHexByte(svInput[n + 2])
             bIsValid == nLeft # INVALID_DYNLIB_BYTE /\ nRight # INVALID_DYNLIB_BYTE
         IN  IF ~bIsValid
             THEN IF build = "debug"
                  THEN [result EXCEPT !.aborted = TRUE]
                  ELSE ParseLoop(N, SIZE, svInput, build, n + 1, nOut, result)
             ELSE ParseLoop(N, SIZE, svInput, build, n + 3, nOut + 1,
                            StoreCell(result, SIZE, nOut,
                                      ShiftOr(nLeft, nRight), "x"))
    ELSE ParseLoop(N, SIZE, svInput, build, n + 1, nOut, result)

\* ParsePattern<N>(svInput)
ParsePattern(N, svInput, build) ==
    LET SIZE == (N - 1) \div 2
    IN  ParseLoop(N, SIZE, svInput, build, 0, 0, Pattern_t(SIZE))

\* pattern strings a literal can hold: static_assert(SIZE > 0) wants two
\* characters or more
PatternStrings == UNION {[1..k -> PatternChars] : k \in 2..MaxStrLen}

InitParse ==
    /\ parse \in {[done |-> FALSE, svInput |-> s, N |-> rn, build |-> b] :
                    s \in PatternStrings, rn \in RuntimeSizes, b \in AssertBuilds}
    /\ memprot = NoMemProt
    /\ image = [crashed |-> FALSE]
    /\ thr = NoThreads
    /\ rm = NoRemover
    /\ InitNoExt2
    /\ InitNoScan
    /\ InitNoHook
    /\ InitNoMulti

\* the same string given to ParseStringPattern as a literal and to
\* ParsePattern<N> as a string view
ParseBoth ==
    /\ ~parse.done
    /\ parse' = [done |-> TRUE, svInput |-> parse.svInput, N |-> parse.N,
                 build |-> parse.build,
                 compiled |-> ParseStringPattern(Append(parse.svInput, Nul),
                                                 Len(parse.svInput) + 1),
                 parsed |-> ParsePattern(parse.N, parse.svInput, parse.build)]

NextParse == ParseBoth

-----------------------------------------------------------------------------
(* Memory protection: ProtFlag, TranslateProtection, CMemAccessor::MemProtect,
   CMemProtector *)

MaxProtCalls == 2    \* MemProtect calls made directly in one run

\* enum ProtFlag
ProtUNSET == 0
ProtX == 2
ProtR == 4
ProtW == 8
ProtN == 64

\* the native constants of VirtualProtect
PAGE_NOACCESS == 1
PAGE_READONLY == 2
PAGE_READWRITE == 4
PAGE_EXECUTE == 16
PAGE_EXECUTE_READ == 32
PAGE_EXECUTE_READWRITE == 64

\* the native constants of mprotect / mach_vm_protect
PROT_NONE == 0
PROT_READ == 1
PROT_WRITE == 2
PROT_EXEC == 4

FlagBits == {1, 2, 4, 8, 16, 32, 64}
HasBit(n, b) == (n \div b) % 2 = 1
BitIf(a, b, k) == IF HasBit(a, k) \/ HasBit(b, k) THEN k ELSE 0
\* operator|(ProtFlag, ProtFlag), and | on native flags
BitOr(a, b) == BitIf(a, b, 1) + BitIf(a, b, 2) + BitIf(a, b, 4) + BitIf(a, b, 8)
               + BitIf(a, b, 16) + BitIf(a, b, 32) + BitIf(a, b, 64)
\* operator&(ProtFlag, ProtFlag) : bool
FlagAnd(lhs, rhs) == \E k \in FlagBits : HasBit(lhs, k) /\ HasBit(rhs, k)

OSes == {"windows", "linux", "apple"}

\* int TranslateProtection(ProtFlag flags)
TranslateProtection(os, flags) ==
    IF os = "windows"
    THEN LET f1 == IF flags = ProtX THEN PAGE_EXECUTE ELSE 0
             f2 == IF flags = ProtR THEN PAGE_READONLY ELSE f1
             f3 == IF flags = ProtW \/ flags = BitOr(ProtR, ProtW)
                   THEN PAGE_READWRITE ELSE f2
             f4 == IF FlagAnd(flags, ProtX) /\ FlagAnd(flags, ProtR)
                   THEN PAGE_EXECUTE_READ ELSE f3
             f5 == IF FlagAnd(flags, ProtX) /\ FlagAnd(flags, ProtW)
                   THEN PAGE_EXECUTE_READWRITE ELSE f4
         IN  IF FlagAnd(flags, ProtN) THEN PAGE_NOACCESS ELSE f5
    ELSE LET f1 == IF FlagAnd(flags, ProtX) THEN BitOr(PROT_NONE, PROT_EXEC)
                   ELSE PROT_NONE
             f2 == IF FlagAnd(flags, ProtR) THEN BitOr(f1, PROT_READ) ELSE f1
             f3 == IF FlagAnd(flags, ProtW) THEN BitOr(f2, PROT_WRITE) ELSE f2
         IN  IF FlagAnd(flags, ProtN) THEN PROT_NONE ELSE f3

\* ProtFlag TranslateProtection(int prot)
TranslateProtectionToFlag(os, nativeProt) ==
    IF os = "windows"
    THEN CASE nativeProt = PAGE_EXECUTE -> ProtX
           [] nativeProt = PAGE_READONLY -> ProtR
           [] nativeProt = PAGE_READWRITE -> BitOr(ProtW, ProtR)
           [] nativeProt = PAGE_EXECUTE_READWRITE -> BitOr(BitOr(ProtX, ProtR), ProtW)
           [] nativeProt = PAGE_EXECUTE_READ -> BitOr(ProtX, ProtR)
           [] nativeProt = PAGE_NOACCESS -> ProtN
           [] OTHER -> ProtUNSET
    ELSE LET f1 == IF HasBit(nativeProt, PROT_EXEC) THEN BitOr(ProtUNSET, ProtX)
                   ELSE ProtUNSET
             f2 == IF HasBit(nativeProt, PROT_READ) THEN BitOr(f1, ProtR) ELSE f1
             f3 == IF HasBit(nativeProt, PROT_WRITE) THEN BitOr(f2, ProtW) ELSE f2
         IN  IF nativeProt = PROT_NONE THEN BitOr(f3, ProtN) ELSE f3

\* GetRegionFromAddr(dest).prot : the rwx column of /proc/self/maps for the
\* region, which is mapped
GetRegionFromAddr(region) ==
    LET f1 == IF HasBit(region, PROT_READ) THEN BitOr(ProtUNSET, ProtR) ELSE ProtUNSET
        f2 == IF HasBit(region, PROT_WRITE) THEN BitOr(f1, ProtW) ELSE f1
        f3 == IF HasBit(region, PROT_EXEC) THEN BitOr(f2, ProtX) ELSE f2
    IN  IF f3 = ProtUNSET THEN ProtN ELSE f3

\* the protections a region can have on each system
NativeProts(os) ==
    IF os = "windows"
    THEN {PAGE_NOACCESS, PAGE_READONLY, PAGE_READWRITE, PAGE_EXECUTE,
          PAGE_EXECUTE_READ, PAGE_EXECUTE_READWRITE}
    ELSE 0..7

\* VirtualProtect / mprotect / mach_vm_protect on the region: osOk is whether
\* the system lets the call succeed; a value that is no protection constant
\* is refused
OsProtect(os, region, nativeProt, osOk) ==
    IF osOk /\ nativeProt \in NativeProts(os)
    THEN [ok |-> TRUE, region |-> nativeProt]
    ELSE [ok |-> FALSE, region |-> region]

\* the ProtFlag returned on Apple, whatever the region
AppleReturn == BitOr(ProtR, ProtX)

\* CMemAccessor::MemProtect(dest, size, prot, status), one definition per
\* platform file
MemProtect(os, region, protFlags, osOk) ==
    LET r == OsProtect(os, region, TranslateProtection(os, protFlags), osOk)
    IN  [status |-> r.ok,
         ok |-> r.ok,             \* history: what the system call did
         region |-> r.region,
         ret |-> IF os = "windows" THEN TranslateProtectionToFlag(os, protFlags)
                 ELSE IF os = "linux" THEN GetRegionFromAddr(region)
                 ELSE AppleReturn]

\* the ProtFlag values handed to MemProtect: R, X, W, R|W, R|X, RWX, N
ProtFlagInputs == {ProtR, ProtX, ProtW, BitOr(ProtR, ProtW), BitOr(ProtR, ProtX),
                   BitOr(BitOr(ProtR, ProtW), ProtX), ProtN}

NoProtOp == [op |-> "none", prev |-> 0, ret |-> ProtUNSET, status |-> FALSE,
             osOk |-> FALSE]

InitProt ==
    /\ \E o \in OSes, g \in 0..PAGE_EXECUTE_READWRITE :
         /\ g \in NativeProts(o)
         /\ memprot = [os |-> o, region |-> g, life |-> "unborn",
                       m_origProtection |-> ProtUNSET, m_status |-> FALSE,
                       m_unsetLater |-> FALSE, before |-> g, ctorOk |-> FALSE,
                       nCalls |-> 0, last |-> NoProtOp]
    /\ parse = NoParse
    /\ image = [crashed |-> FALSE]
    /\ thr = NoThreads
    /\ rm = NoRemover
    /\ InitNoExt2
    /\ InitNoScan
    /\ InitNoHook
    /\ InitNoMulti

\* CMemAccessor::MemProtect called directly
MemProtectCall ==
    /\ memprot.nCalls < MaxProtCalls
    /\ \E protFlags \in ProtFlagInputs, osOk \in BOOLEAN :
         LET r == MemProtect(memprot.os, memprot.region, protFlags, osOk)
         IN  memprot' = [memprot EXCEPT
                 !.region = r.region,
                 !.nCalls = @ + 1,
                 !.last = [op |-> "MemProtect", prev |-> memprot.region,
                           ret |-> r.ret, status |-> r.status, osOk |-> r.ok]]

\* CMemProtector::CMemProtector(address, length, prot, unsetOnDestroy)
ProtectorConstruct ==
    /\ memprot.life = "unborn"
    /\ \E protFlags \in ProtFlagInputs, unsetOnDestroy \in BOOLEAN, osOk \in BOOLEAN :
         LET r == MemProtect(memprot.os, memprot.region, protFlags, osOk)
         IN  memprot' = [memprot EXCEPT
                 !.life = "alive",
                 !.before = memprot.region,
                 !.ctorOk = r.ok,
                 !.m_unsetLater = unsetOnDestroy,
                 !.m_status = r.status,
                 !.m_origProtection = r.ret,
                 !.region = r.region,
                 !.last = [op |-> "CMemProtector", prev |-> memprot.region,
                           ret |-> r.ret, status |-> r.status, osOk |-> r.ok]]

\* CMemProtector::~CMemProtector()
ProtectorDestroy ==
    /\ memprot.life = "alive"
    /\ \E osOk \in BOOLEAN :
         IF memprot.m_origProtection = ProtUNSET \/ ~memprot.m_unsetLater
         THEN memprot' = [memprot EXCEPT
                 !.life = "dead",
                 !.last = [op |-> "~CMemProtector", prev |-> memprot.region,
                           ret |-> ProtUNSET, status |-> memprot.m_status,
                           osOk |-> TRUE]]
         ELSE LET r == MemProtect(memprot.os, memprot.region,
                                  memprot.m_origProtection, osOk)
              IN  memprot' = [memprot EXCEPT
                      !.life = "dead",
                      !.m_status = r.status,
                      !.region = r.region,
                      !.last = [op |-> "~CMemProtector", prev |-> memprot.region,
                                ret |-> r.ret, status |-> r.status, osOk |-> r.ok]]

NextProt == MemProtectCall \/ ProtectorConstruct \/ ProtectorDestroy

-----------------------------------------------------------------------------
(* Module objects: LoadFromPath, InitFromName, InitFromMemory, the moves and
   the destructor (Linux) *)

MaxModOps == 4       \* operations one run makes on the module objects

Objs == {1, 2}                   \* module objects of a run
Libs == {1, 2}                   \* libraries on disk; dlopen returns the library's handle
NullHandle == 0
NullPtr == [buf |-> 0, idx |-> 0]

\* section names in the section header table of each library: library 1 has
\* an unnamed section and ".text", library 2 has no ".text"
ImageSections(lib) ==
    IF lib = 1 THEN <<"", ".text", ".rodata">> ELSE <<".rodata">>

\* the loop of LoadFromPath: sections with an empty name are skipped
RECURSIVE NamedSections(_)
NamedSections(names) ==
    IF names = <<>> THEN <<>>
    ELSE IF Head(names) = "" THEN NamedSections(Tail(names))
    ELSE <<Head(names)>> \o NamedSections(Tail(names))

\* GetSectionByName: a pointer to the first section of that name, or nullptr
GetSectionByName(obj, svSectionName) ==
    IF \E i \in 1..Len(obj.m_vecSections) : obj.m_vecSections[i] = svSectionName
    THEN [buf |-> obj.buf,
          idx |-> CHOOSE i \in 1..Len(obj.m_vecSections) :
                     /\ obj.m_vecSections[i] = svSectionName
                     /\ \A j \in 1..(i - 1) : obj.m_vecSections[j] # svSectionName]
    ELSE NullPtr

IsValidModule(obj) == obj.handle # NullHandle

UnbornModule ==
    [life |-> "unborn", handle |-> NullHandle, m_vecSections |-> <<>>, buf |-> 0,
     m_pExecutableSection |-> NullPtr, atOpen |-> <<>>, enumerations |-> 0]

\* CAssemblyModule() : m_pExecutableSection(nullptr)
DefaultModule == [UnbornModule EXCEPT !.life = "alive"]

InitImage ==
    /\ image = [objs |-> [o \in Objs |-> UnbornModule],
                opens |-> [l \in Libs |-> 0],
                closes |-> [l \in Libs |-> 0],
                nextBuf |-> 1,
                nOps |-> 0,
                crashed |-> FALSE,
                last |-> "none"]
    /\ parse = NoParse
    /\ memprot = NoMemProt
    /\ thr = NoThreads
    /\ rm = NoRemover
    /\ InitNoExt2
    /\ InitNoScan
    /\ InitNoHook
    /\ InitNoMulti

\* dlclose(handle)
DlClose(img, handle) == [img EXCEPT !.closes[handle] = @ + 1]

\* LoadFromPath(path of lib, flags) on object o.  The outcome of each system
\* call is an input; realloc says whether emplace_back moved the vector's
\* storage; build is "debug" when assert() is compiled in.
LoadFromPath(img, o, lib, dlopenOk, dlinfoOk, openOk, mapOk, realloc, build) ==
    IF ~dlopenOk THEN [img |-> img, ret |-> FALSE]
    ELSE LET opened == [img EXCEPT !.opens[lib] = @ + 1]
             obj == img.objs[o]
         IN  IF ~dlinfoOk \/ ~openOk
             THEN [img |-> DlClose(opened, lib), ret |-> FALSE]
             ELSE LET newSecs == IF mapOk THEN NamedSections(ImageSections(lib))
                               ELSE <<>>
                      moved == newSecs # <<>> /\ (obj.m_vecSections = <<>> \/ realloc)
                      filled == [obj EXCEPT
                                   !.m_vecSections = @ \o newSecs,
                                   !.buf = IF moved THEN img.nextBuf ELSE @,
                                   !.handle = lib,
                                   !.enumerations = IF IsValidModule(obj) THEN @ + 1 ELSE 1,
                                   !.atOpen = IF IsValidModule(obj) THEN @
                                              ELSE obj.m_vecSections \o newSecs]
                      pExec == GetSectionByName(filled, ".text")
                  IN  [img |-> [opened EXCEPT
                                  !.objs[o] = [filled EXCEPT !.m_pExecutableSection = pExec],
                                  !.nextBuf = IF moved THEN @ + 1 ELSE @,
                                  !.crashed = (build = "debug" /\ pExec = NullPtr)],
                       ret |-> TRUE]

Step(img, what) == [img EXCEPT !.nOps = @ + 1, !.last = what]
CanStep == ~image.crashed /\ image.nOps < MaxModOps

ModConstruct(o) ==
    /\ CanStep
    /\ image.objs[o].life = "unborn"
    /\ image' = Step([image EXCEPT !.objs[o] = DefaultModule], "construct")

\* InitFromName(svModuleName): found is the library dl_iterate_phdr matched,
\* or 0
ModInitFromName(o) ==
    /\ CanStep
    /\ image.objs[o].life = "alive"
    /\ \E nameEmpty \in BOOLEAN, found \in Libs \cup {0},
          dlopenOk \in BOOLEAN, dlinfoOk \in BOOLEAN, openOk \in BOOLEAN,
          mapOk \in BOOLEAN, realloc \in BOOLEAN, build \in AssertBuilds :
         IF IsValidModule(image.objs[o]) \/ nameEmpty \/ found = 0
         THEN image' = Step(image, "InitFromName")
         ELSE image' = Step(LoadFromPath(image, o, found, dlopenOk, dlinfoOk,
                                         openOk, mapOk, realloc, build).img,
                            "InitFromName")

\* InitFromMemory(pModuleMemory, bForce): found is the library dladdr names,
\* or 0
ModInitFromMemory(o) ==
    /\ CanStep
    /\ image.objs[o].life = "alive"
    /\ \E bForce \in BOOLEAN, memValid \in BOOLEAN, found \in Libs \cup {0},
          dlopenOk \in BOOLEAN, dlinfoOk \in BOOLEAN, openOk \in BOOLEAN,
          mapOk \in BOOLEAN, realloc \in BOOLEAN, build \in AssertBuilds :
         IF (IsValidModule(image.objs[o]) /\ ~bForce) \/ ~memValid \/ found = 0
         THEN image' = Step(image, "InitFromMemory")
         ELSE image' = Step(LoadFromPath(image, o, found, dlopenOk, dlinfoOk,
                                         openOk, mapOk, realloc, build).img,
                            "InitFromMemory")

\* CAssemblyModule(CAssemblyModule&& other): the handle is exchanged for the
\* invalid one, the vector's storage goes to the new object, the pointer is
\* copied
ModMoveConstruct(o, other) ==
    /\ CanStep
    /\ o # other
    /\ image.objs[o].life = "unborn"
    /\ image.objs[other].life = "alive"
    /\ image' = Step([image EXCEPT
           !.objs[o] = [image.objs[other] EXCEPT !.life = "alive"],
           !.objs[other] = [@ EXCEPT !.handle = NullHandle,
                                     !.m_vecSections = <<>>,
                                     !.buf = 0,
                                     !.atOpen = <<>>,
                                     !.enumerations = 0]],
           "move-construct")

\* operator=(CModule&& other): every member is taken from other, other's
\* handle is set to nullptr
ModMoveAssign(o, other) ==
    /\ CanStep
    /\ image.objs[o].life = "alive"
    /\ image.objs[other].life = "alive"
    /\ IF o = other
       THEN image' = Step(image, "move-assign")
       ELSE image' = Step([image EXCEPT
               !.objs[o] = image.objs[other],
               !.objs[other] = [@ EXCEPT !.handle = NullHandle,
                                         !.m_vecSections = <<>>,
                                         !.buf = 0,
                                         !.m_pExecutableSection = NullPtr,
                                         !.atOpen = <<>>,
                                         !.enumerations = 0]],
               "move-assign")

\* ~CModule(): if (IsValid()) dlclose(GetPtr())
ModDestroy(o) ==
    /\ ~image.crashed
    /\ image.objs[o].life = "alive"
    /\ LET obj == image.objs[o]
           closed == IF IsValidModule(obj) THEN DlClose(image, obj.handle) ELSE image
       IN  image' = [closed EXCEPT !.objs[o] = [obj EXCEPT !.life = "dead"],
                                   !.last = "destroy"]

NextImage ==
    \/ \E o \in Objs : ModConstruct(o)
    \/ \E o \in Objs : ModInitFromName(o)
    \/ \E o \in Objs : ModInitFromMemory(o)
    \/ \E o \in Objs, other \in Objs : ModMoveConstruct(o, other)
    \/ \E o \in Objs, other \in Objs : ModMoveAssign(o, other)
    \/ \E o \in Objs : ModDestroy(o)

-----------------------------------------------------------------------------
(* Threads calling FindPattern on one CAssemblyModule<std::shared_mutex> *)

Threads == {1, 2}
ConcSectionSizes == {1, 2}       \* sizes of the section the threads scan
ConcRunBuf == 2                  \* the template argument SIZE of the calls

\* the calls a thread can make: one- and two-byte patterns, with and without
\* a wildcard, no start address, the executable section
ConcCalls ==
    {[api |-> "FindPattern", pattern |-> p, mask |-> k, start |-> InvalidMemory,
      section |-> NullSectionPtr, SIZE |-> ConcRunBuf, build |-> "none"] :
        p \in {<<0>>, <<1>>}, k \in {<<"x">>}}
    \cup
    {[api |-> "FindPattern", pattern |-> p, mask |-> k, start |-> InvalidMemory,
      section |-> NullSectionPtr, SIZE |-> ConcRunBuf, build |-> "none"] :
        p \in {<<0, 1>>}, k \in {<<"x", "x">>, <<"?", "x">>}}

KeyOf(c) == CCache(c.pattern, Len(c.mask), c.start, c.section)

\* std::shared_mutex: lock_shared() returns once no writer holds the mutex
CanLockShared(m) == m.writer = 0
\* CNullMutex: lock() returns at once
NullMutexLock(m) == TRUE

\* std::shared_mutex: lock() returns once nobody holds the mutex
CanLockUnique(m) == m.writer = 0 /\ m.readers = {}

InitConc ==
    /\ mem \in UNION {[1..n -> Bytes] : n \in ConcSectionSizes}
    /\ m_mapCached = EmptyCache
    /\ thr = [pc |-> [t \in Threads |-> "idle"],
              args |-> [t \in Threads |-> NoCall],
              found |-> [t \in Threads |-> InvalidMemory],
              ret |-> [t \in Threads |-> InvalidMemory],
              scanned |-> [t \in Threads |-> FALSE],
              m_mutex |-> [readers |-> {}, writer |-> 0]]
    /\ call = NoCall
    /\ ret = InvalidMemory
    /\ fromCache = FALSE
    /\ nCalls = 0
    /\ prevRet = InvalidMemory
    /\ prevCache = EmptyCache
    /\ cbCalls = <<>>
    /\ parse = NoParse
    /\ memprot = NoMemProt
    /\ image = [crashed |-> FALSE]
    /\ rm = NoRemover
    /\ InitNoExt2
    /\ InitNoHook
    /\ InitNoMulti

\* thread t enters FindPattern and builds sKey
ThreadCall(t) ==
    /\ thr.pc[t] = "idle"
    /\ \E c \in ConcCalls :
         thr' = [thr EXCEPT !.pc[t] = "lookup", !.args[t] = c]
    /\ UNCHANGED m_mapCached

\* GetAddress: the shared lock is taken
ThreadLockShared(t) ==
    /\ thr.pc[t] = "lookup"
    /\ CanLockShared(thr.m_mutex)
    /\ thr' = [thr EXCEPT !.pc[t] = "reading",
                          !.m_mutex.readers = @ \cup {t}]
    /\ UNCHANGED m_mapCached

\* GetAddress: the map is read and the shared lock released; a hit returns
ThreadRead(t) ==
    /\ thr.pc[t] = "reading"
    /\ LET pAddr == GetAddress(m_mapCached, KeyOf(thr.args[t]))
       IN  thr' = [thr EXCEPT
               !.m_mutex.readers = @ \ {t},
               !.pc[t] = IF pAddr # InvalidMemory THEN "done" ELSE "scan",
               !.ret[t] = pAddr]
    /\ UNCHANGED m_mapCached

\* the scan of the section, no lock held; a miss returns
ThreadScan(t) ==
    /\ thr.pc[t] = "scan"
    /\ LET c == thr.args[t]
           r == ScanSection(EmptyCache, mem, SectionPtr(TextSection(mem)), c.SIZE,
                            c.pattern, c.mask, c.start, c.section)
       IN  thr' = [thr EXCEPT
               !.scanned[t] = TRUE,
               !.found[t] = r.ret,
               !.pc[t] = IF r.ret # InvalidMemory THEN "found" ELSE "done",
               !.ret[t] = r.ret]
    /\ UNCHANGED m_mapCached

\* UniqueLock_t lock(m_mutex)
ThreadLockUnique(t) ==
    /\ thr.pc[t] = "found"
    /\ CanLockUnique(thr.m_mutex)
    /\ thr' = [thr EXCEPT !.pc[t] = "inserting", !.m_mutex.writer = t]
    /\ UNCHANGED m_mapCached

\* m_mapCached[std::move(sKey)] = pData; return pData; the lock is released
ThreadInsert(t) ==
    /\ thr.pc[t] = "inserting"
    /\ m_mapCached' = CacheInsert(m_mapCached, KeyOf(thr.args[t]), thr.found[t])
    /\ thr' = [thr EXCEPT !.pc[t] = "done",
                          !.ret[t] = thr.found[t],
                          !.m_mutex.writer = IF @ = t THEN 0 ELSE @]

NextConc ==
    \/ \E t \in Threads : ThreadCall(t)
    \/ \E t \in Threads : ThreadLockShared(t)
    \/ \E t \in Threads : ThreadRead(t)
    \/ \E t \in Threads : ThreadScan(t)
    \/ \E t \in Threads : ThreadLockUnique(t)
    \/ \E t \in Threads : ThreadInsert(t)

-----------------------------------------------------------------------------
(* A CVTFMHook whose RemoveHook / Clear run in one thread while another
   thread calls through the slots *)

InitRace ==
    /\ InitNoScan /\ InitTables /\ InitHooks
    /\ parse = NoParse
    /\ memprot = NoMemProt
    /\ image = [crashed |-> FALSE]
    /\ thr = NoThreads
    /\ rm = [pc |-> "idle", view |-> 0]
    /\ InitNoExt2
    /\ manager = "CVTFMHook"
    /\ m_storage = <<>>
    /\ sm_vcallbacks = <<>>
    /\ added = [a \in SlotAddrs |-> <<>>]
    /\ firstBefore = [a \in SlotAddrs |-> InvalidMemory]
    /\ nAdds = 0
    /\ mlast = NoMOp

\* CVTFMHook::AddHook, by the thread that owns the manager
RaceAddHook(v, nIndex, funcCallback) ==
    /\ rm.pc = "idle"
    /\ FAddHook(v, nIndex, funcCallback)
    /\ UNCHANGED rm

\* CVTFMHook::RemoveHook, first statement: sm_vcallbacks.erase(pVTable)
RemoveErase(v) ==
    /\ ~aborted
    /\ rm.pc = "idle"
    /\ sm_vcallbacks' = [k \in DOMAIN sm_vcallbacks \ {v} |-> sm_vcallbacks[k]]
    /\ rm' = [pc |-> "removing", view |-> v]
    /\ UNCHANGED <<vtmem, prot, platform, aborted, last, manager, m_storage,
                   added, firstBefore, nAdds, mlast>>

\* CVTFMHook::RemoveHook, second statement: Base_t::RemoveHook(pVTable)
RemoveBase ==
    /\ ~aborted
    /\ rm.pc = "removing"
    /\ LET r == BaseRemoveHook(vtmem, m_storage, rm.view) IN
       /\ vtmem' = r.vt
       /\ m_storage' = r.storage
    /\ NoteRemove(rm.view)
    /\ rm' = [pc |-> "idle", view |-> 0]
    /\ UNCHANGED <<sm_vcallbacks, manager, prot, platform, aborted, last>>

\* CVTFMHook::Clear, first statement: sm_vcallbacks.clear()
ClearErase ==
    /\ ~aborted
    /\ rm.pc = "idle"
    /\ sm_vcallbacks' = <<>>
    /\ rm' = [pc |-> "clearing", view |-> 0]
    /\ UNCHANGED <<vtmem, prot, platform, aborted, last, manager, m_storage,
                   added, firstBefore, nAdds, mlast>>

\* CVTFMHook::Clear, second statement: Base_t::Clear(), m_storage.clear()
ClearBase ==
    /\ ~aborted
    /\ rm.pc = "clearing"
    /\ vtmem' = EraseRange(vtmem, m_storage)
    /\ m_storage' = <<>>
    /\ added' = [a \in SlotAddrs |-> <<>>]
    /\ firstBefore' = [a \in SlotAddrs |-> InvalidMemory]
    /\ mlast' = [NoMOp EXCEPT !.op = "Clear"]
    /\ rm' = [pc |-> "idle", view |-> 0]
    /\ UNCHANGED <<sm_vcallbacks, manager, prot, platform, aborted, last, nAdds>>

\* another thread makes a virtual call through a slot, at any moment
RaceCall(v, nIndex) ==
    /\ CallSlot(v, nIndex)
    /\ UNCHANGED rm

NextRace ==
    \/ \E v \in Views, i \in Indices, cb \in Callbacks : RaceAddHook(v, i, cb)
    \/ \E v \in Views : RemoveErase(v)
    \/ RemoveBase
    \/ ClearErase
    \/ ClearBase
    \/ \E v \in Views, i \in Indices : RaceCall(v, i)

-----------------------------------------------------------------------------
(* CModule::GetVirtualTableByName on ELF.  The image is one run of bytes from
   SectionBase on: .rodata, then .data.rel.ro, then .data.rel.ro.local *)

s_nDefaultPatternSize == 256
RodataSize == PtrSize            \* bytes of .rodata
RelroWords == 3                  \* pointer-sized words of .data.rel.ro
LocalWords == 2                  \* pointer-sized words of .data.rel.ro.local

RodataSection == [isNull |-> FALSE, base |-> SectionBase, size |-> RodataSize]
RelroSection ==
    [isNull |-> FALSE, base |-> SectionBase + RodataSize, size |-> RelroWords * PtrSize]
LocalSection ==
    [isNull |-> FALSE, base |-> RelroSection.base + RelroSection.size,
     size |-> LocalWords * PtrSize]

\* the bytes of a pointer-sized object holding v (little-endian)
ObjectBytes(v) ==
    [i \in 1..PtrSize |-> IF i = 1 THEN v % 256 ELSE IF i = 2 THEN (v \div 256) % 256 ELSE 0]

\* std::to_string(n) as characters
RECURSIVE to_string(_)
to_string(n) ==
    IF n < 10 THEN <<48 + n>> ELSE to_string(n \div 10) \o <<48 + (n % 10)>>

\* a faulty test of the word before a hit: every hit is taken
PrecedingAny(m, reference) == TRUE

\* reference.Offset(-0x8).Get<int64_t>() == 0
PrecedingIsZero(m, reference) ==
    \A i \in 0..(PtrSize - 1) : ByteAt(m, reference - PtrSize + i) = 0

\* while ((reference = FindPattern(&typeInfo, "xxxxxxxx", reference, pSection)))
RECURSIVE VTableLoop(_, _, _, _, _)
VTableLoop(cache, m, typeInfo, reference, pSection) ==
    LET r == FindPattern(cache, m, NullSectionPtr, (s_nDefaultPatternSize - 1) \div 2,
                         ObjectBytes(typeInfo), [i \in 1..PtrSize |-> "x"],
                         reference, pSection)
    IN  IF r.ret = InvalidMemory THEN [ret |-> InvalidMemory, cache |-> r.cache]
        ELSE IF PrecedingIsZero(m, r.ret)
        THEN [ret |-> r.ret + PtrSize, cache |-> r.cache]
        ELSE VTableLoop(r.cache, m, typeInfo, r.ret + PtrSize, pSection)

\* for (sectionName : {".data.rel.ro", ".data.rel.ro.local"})
RECURSIVE VTableSections(_, _, _, _)
VTableSections(cache, m, typeInfo, sections) ==
    IF sections = <<>> THEN [ret |-> InvalidMemory, cache |-> cache]
    ELSE IF Head(sections).isNull
    THEN VTableSections(cache, m, typeInfo, Tail(sections))
    ELSE LET r == VTableLoop(cache, m, typeInfo, InvalidMemory, Head(sections)) IN
         IF r.ret # InvalidMemory THEN r
         ELSE VTableSections(r.cache, m, typeInfo, Tail(sections))

\* CModule::GetVirtualTableByName(svTableName, bDecorated); secs is what
\* GetSectionByName returns for the three names
GetVirtualTableByName(cache, m, secs, svTableName, bDecorated, build) ==
    LET pReadOnlyData == secs.rodata
        pReadOnlyRelocations == secs.relro
        sDecoratedTableName ==
            IF bDecorated THEN svTableName ELSE to_string(Len(svTableName)) \o svTableName
        sMask == [i \in 1..(Len(sDecoratedTableName) + 1) |-> "x"]
        SIZE == (s_nDefaultPatternSize - 1) \div 2
        typeInfoName == FindPattern(cache, m, NullSectionPtr, SIZE,
                                    sDecoratedTableName \o <<0>>, sMask,
                                    InvalidMemory, pReadOnlyData)
        referenceTypeName == FindPattern(typeInfoName.cache, m, NullSectionPtr, SIZE,
                                         ObjectBytes(typeInfoName.ret),
                                         [i \in 1..PtrSize |-> "x"],
                                         InvalidMemory, pReadOnlyRelocations)
        typeInfo == referenceTypeName.ret - PtrSize
    IN  IF pReadOnlyData.isNull \/ pReadOnlyRelocations.isNull
        THEN [ret |-> InvalidMemory, cache |-> cache, aborted |-> build = "debug"]
        ELSE IF typeInfoName.ret = InvalidMemory
        THEN [ret |-> InvalidMemory, cache |-> typeInfoName.cache, aborted |-> FALSE]
        ELSE IF referenceTypeName.ret = InvalidMemory
        THEN [ret |-> InvalidMemory, cache |-> referenceTypeName.cache, aborted |-> FALSE]
        ELSE LET r == VTableSections(referenceTypeName.cache, m, typeInfo,
                                     <<secs.relro, secs.local>>)
             IN  [ret |-> r.ret, cache |-> r.cache, aborted |-> FALSE]

\* the words the relocation sections hold: null, the address of the name in
\* .rodata, the first and the last word of .data.rel.ro (the last one in
\* .data.rel.ro only)
ImageWords == {0, SectionBase, RelroSection.base, LocalSection.base - PtrSize}
\* .rodata holding "1A", or "1AB" only
RodataContents == {<<49, 65, 0, 0, 0, 0, 0, 0>>, <<49, 65, 66, 0, 0, 0, 0, 0>>}
\* the bytes of a sequence of words
RECURSIVE WordsToBytes(_)
WordsToBytes(ws) ==
    IF ws = <<>> THEN <<>> ELSE ObjectBytes(Head(ws)) \o WordsToBytes(Tail(ws))

\* the sections an image can lack, and the build
ImageConfigs ==
    {[secs |-> [rodata |-> RodataSection, relro |-> RelroSection, local |-> lc],
      build |-> "release"] : lc \in {LocalSection, NullSectionPtr}}
    \cup {[secs |-> [rodata |-> NullSectionPtr, relro |-> RelroSection,
                     local |-> LocalSection], build |-> "debug"],
          [secs |-> [rodata |-> RodataSection, relro |-> NullSectionPtr,
                     local |-> LocalSection], build |-> "release"]}
\* the names asked for
TableQueries == {[name |-> <<65>>, decorated |-> FALSE],
                 [name |-> <<49, 65>>, decorated |-> TRUE]}

InitTable ==
    /\ \E ro \in RodataContents, rl \in [1..RelroWords -> ImageWords],
          lc \in [1..LocalWords -> ImageWords \ {LocalSection.base - PtrSize}] :
          mem = ro \o WordsToBytes(rl) \o WordsToBytes(lc)
    /\ m_mapCached = EmptyCache
    /\ call = NoCall
    /\ ret = InvalidMemory
    /\ fromCache = FALSE
    /\ nCalls = 0
    /\ prevRet = InvalidMemory
    /\ prevCache = EmptyCache

\* one GetVirtualTableByName call on the module
TableCall ==
    /\ nCalls = 0
    /\ \E q \in TableQueries, cfg \in ImageConfigs :
         LET r == GetVirtualTableByName(m_mapCached, mem, cfg.secs, q.name,
                                        q.decorated, cfg.build)
         IN /\ call' = [api |-> "GetVirtualTableByName", name |-> q.name,
                        decorated |-> q.decorated, secs |-> cfg.secs,
                        build |-> cfg.build, aborted |-> r.aborted]
            /\ ret' = r.ret
            /\ m_mapCached' = r.cache
            /\ nCalls' = nCalls + 1
            /\ prevRet' = ret
            /\ prevCache' = m_mapCached
            /\ UNCHANGED <<mem, fromCache, cbCalls>>

NextTable == TableCall

-----------------------------------------------------------------------------
(* Word arithmetic: MemoryRound, MemoryRoundUp, MemProtect's range and
   GetVirtualIndex.  size_t, uintptr_t and ptrdiff_t are words of WordBits
   bits *)

WordBits == 12       \* width of size_t, uintptr_t and ptrdiff_t in the model
MaxDest == 17        \* MemProtect is called on addresses 0..MaxDest
MaxSize == 9         \* and sizes 1..MaxSize
MaxPmfAddr == 70     \* addr fields of member-function pointers are 0..MaxPmfAddr

WordMod == 2 ^ WordBits
\* static_cast<size_t>(-1)
SizeMax == WordMod - 1
\* conversion of a value to the unsigned word type
ToUnsigned(x) == x % WordMod
\* conversion of an unsigned word to std::ptrdiff_t
ToSigned(u) == IF u >= WordMod \div 2 THEN u - WordMod ELSE u
\* a ^ b for b's bits among a's
XorSub(a, b) == a - b

\* sysconf(_SC_PAGESIZE): a power of two
PageSizes == {4, 8}

\* MemoryRound(numToRound, multiple)
MemoryRound(numToRound, multiple) ==
    ByteAnd(numToRound, XorSub(SizeMax, multiple - 1))

\* MemoryRoundUp(numToRound, multiple)
MemoryRoundUp(numToRound, multiple) ==
    ByteAnd(ToUnsigned(numToRound + (multiple - 1)), XorSub(SizeMax, multiple - 1))

\* the pages the system call changes: mprotect and mach_vm_protect on
\* [addr, addr + len) with addr page-aligned, VirtualProtect on the pages that
\* hold a byte of [addr, addr + len)
PagesOfCall(addr, len, pageSize) ==
    {pg \in 0..((addr + len) \div pageSize) :
        \E b \in addr..(addr + len - 1) : b \div pageSize = pg}

\* the range CMemAccessor::MemProtect(dest, size, prot, status) hands to the
\* system call, one definition per platform file
MemProtectRange(os, dest, size, pageSize) ==
    IF os = "windows"
    THEN [addr |-> dest, len |-> size]
    ELSE [addr |-> MemoryRound(dest, pageSize), len |-> MemoryRoundUp(size, pageSize)]

\* GetVirtualIndex<METHOD>() compiled by GCC or Clang, for a member-function
\* pointer whose first word is addr: (u.pmf.addr - 1u) / sizeof(void*)
GetVirtualIndex(addr) ==
    ToSigned(ToUnsigned(addr - 1) \div PtrSize)

InitFn ==
    /\ InitNoScan /\ InitNoHook /\ InitNoMulti
    /\ parse = NoParse
    /\ memprot = NoMemProt
    /\ image = [crashed |-> FALSE]
    /\ thr = NoThreads
    /\ rm = NoRemover
    /\ m_storage2 = <<>>
    /\ sm_callback = 0
    /\ fcall = NoFCall

\* one CMemAccessor::MemProtect(dest, size, prot, status) call
MemProtectRangeCall ==
    /\ fcall = NoFCall
    /\ \E os \in OSes, dest \in 0..MaxDest, size \in 1..MaxSize, pageSize \in PageSizes :
       LET r == MemProtectRange(os, dest, size, pageSize) IN
       fcall' = [fn |-> "MemProtect", os |-> os, dest |-> dest, size |-> size,
                 pageSize |-> pageSize, addr |-> r.addr, len |-> r.len,
                 pages |-> PagesOfCall(r.addr, r.len, pageSize)]

\* one GetVirtualIndex<METHOD>() evaluation
GetVirtualIndexCall ==
    /\ fcall = NoFCall
    /\ \E addr \in 0..MaxPmfAddr :
       fcall' = [fn |-> "GetVirtualIndex", addr |-> addr, ret |-> GetVirtualIndex(addr)]

NextFn == MemProtectRangeCall \/ GetVirtualIndexCall

-----------------------------------------------------------------------------
(* CVTFHook objects of one signature: CVTHook objects that share the static
   sm_callback; the slot receives the lambda that calls sm_callback *)

InitFHook ==
    /\ InitNoScan /\ InitTables /\ InitHooks /\ InitNoMulti
    /\ parse = NoParse
    /\ memprot = NoMemProt
    /\ image = [crashed |-> FALSE]
    /\ thr = NoThreads
    /\ rm = NoRemover
    /\ m_storage2 = <<>>
    /\ fcall = NoFCall
    /\ sm_callback = 0

\* CVTFHook::Hook(pVTable, nIndex, func)
FHook(h, v, nIndex, func) ==
    IF sm_callback # 0
    THEN \* assert(!sm_callback) fails
         /\ ~aborted
         /\ Alive(h)
         /\ aborted' = TRUE
         /\ last' = [NoOp EXCEPT !.op = "Hook", !.obj = h, !.was = track[h].status,
                                 !.slot = SlotAddr(v, nIndex), !.fn = Trampoline]
         /\ UNCHANGED <<vtmem, prot, platform, hooks, track, installs, sm_callback>>
    ELSE /\ sm_callback' = func
         /\ Hook(h, v, nIndex, Trampoline)

\* CVTFHook::Unhook()
FUnhook(h) ==
    /\ Unhook(h)
    /\ sm_callback' = 0

\* CVTFHook::Clear()
FClear(h) ==
    /\ Clear(h)
    /\ sm_callback' = 0

NextFHook ==
    \/ \E h \in Hooks : Construct(h) /\ UNCHANGED sm_callback
    \/ \E h \in Hooks, v \in HookViews, i \in Indices, func \in Callbacks :
          FHook(h, v, i, func)
    \/ \E h \in Hooks : FUnhook(h)
    \/ \E h \in Hooks : FClear(h)
    \/ \E h \in Hooks, other \in Hooks : MoveConstruct(h, other) /\ UNCHANGED sm_callback
    \/ \E h \in Hooks : Destroy(h) /\ UNCHANGED sm_callback

-----------------------------------------------------------------------------
(* Two CVTFMHook instances of one signature: each has its m_storage, both
   use the one static sm_vcallbacks *)

Instances == {1, 2}

\* m_storage of instance k
StorageOf(k) == IF k = 1 THEN m_storage ELSE m_storage2

\* CVTFMHook::Clear : sm_vcallbacks.clear(); Base_t::Clear()
FClearBody(vt, storage, cbs) ==
    [vt |-> EraseRange(vt, storage), storage |-> <<>>, cbs |-> <<>>]

InitTwo ==
    /\ InitNoScan /\ InitTables /\ InitHooks
    /\ parse = NoParse
    /\ memprot = NoMemProt
    /\ image = [crashed |-> FALSE]
    /\ thr = NoThreads
    /\ rm = NoRemover
    /\ sm_callback = 0
    /\ fcall = NoFCall
    /\ manager = "CVTFMHook"
    /\ m_storage = <<>>
    /\ m_storage2 = <<>>
    /\ sm_vcallbacks = <<>>
    /\ added = <<>>
    /\ firstBefore = <<>>
    /\ nAdds = 0
    /\ mlast = [inst |-> 0] @@ NoMOp

\* what an operation of instance k leaves of the manager state
TwoStep(k, r, op, v, nIndex) ==
    /\ vtmem' = r.vt
    /\ m_storage' = IF k = 1 THEN r.storage ELSE m_storage
    /\ m_storage2' = IF k = 2 THEN r.storage ELSE m_storage2
    /\ sm_vcallbacks' = r.cbs
    /\ mlast' = [inst |-> k] @@ [NoMOp EXCEPT !.op = op, !.view = v, !.index = nIndex]
    /\ UNCHANGED <<manager, prot, platform, aborted, last, added, firstBefore>>

\* instance k: AddHook(pVTable, nIndex, funcCallback)
TwoAddHook(k, v, nIndex, funcCallback) ==
    /\ ~aborted
    /\ nAdds < MaxAdds
    /\ nAdds' = nAdds + 1
    /\ TwoStep(k, FAddHookBody(vtmem, StorageOf(k), sm_vcallbacks, v, nIndex, funcCallback),
               "AddHook", v, nIndex)

\* instance k: RemoveHook(pVTable)
TwoRemoveHook(k, v) ==
    /\ ~aborted
    /\ mlast.op \notin {"RemoveHook", "Clear"}
    /\ UNCHANGED nAdds
    /\ TwoStep(k, FRemoveHookBody(vtmem, StorageOf(k), sm_vcallbacks, v), "RemoveHook", v, 0)

\* instance k: Clear()
TwoClear(k) ==
    /\ ~aborted
    /\ mlast.op \notin {"RemoveHook", "Clear"}
    /\ UNCHANGED nAdds
    /\ TwoStep(k, FClearBody(vtmem, StorageOf(k), sm_vcallbacks), "Clear", 0, 0)

\* a virtual call through a slot
TwoCall(v, nIndex) ==
    /\ ~aborted
    /\ mlast.op # "Call"
    /\ LET target == vtmem[SlotAddr(v, nIndex)]
           r == IF target = Trampoline THEN TrampolineBody(sm_vcallbacks, v)
                ELSE [found |-> TRUE, invoked |-> <<target>>, result |-> target]
       IN /\ aborted' = ~r.found         \* assert(found != sm_vcallbacks.cend())
          /\ mlast' = [inst |-> 0] @@
                      [NoMOp EXCEPT !.op = "Call", !.view = v, !.index = nIndex,
                                    !.invoked = r.invoked, !.result = r.result,
                                    !.found = r.found]
    /\ UNCHANGED <<vtmem, prot, platform, last, manager, m_storage, m_storage2,
                   sm_vcallbacks, added, firstBefore, nAdds>>

NextTwo ==
    \/ \E k \in Instances, v \in Views, i \in Indices, cb \in Callbacks :
          TwoAddHook(k, v, i, cb)
    \/ \E k \in Instances, v \in Views : TwoRemoveHook(k, v)
    \/ \E k \in Instances : TwoClear(k)
    \/ \E v \in Views, i \in Indices : TwoCall(v, i)

vars == <<mem, m_mapCached, call, ret, fromCache, nCalls, prevRet, prevCache,
          vtmem, prot, platform, hooks, aborted, last, track, installs,
          manager, m_storage, sm_vcallbacks, added, firstBefore, nAdds, mlast,
          cbCalls, parse, memprot, image, thr, rm, m_storage2, sm_callback, fcall>>

\* one CAssemblyModule and its FindPattern calls
InitScanOnly == InitScan /\ cbCalls = <<>> /\ InitNoHook /\ InitNoMulti /\ InitNoExt
SpecScan == InitScanOnly
            /\ [][NextScan /\ UNCHANGED <<tableVars, hookVars, multiVars, extVars>>]_vars
\* one CModule and its FindPattern call
InitSimdOnly == InitSimd /\ cbCalls = <<>> /\ InitNoHook /\ InitNoMulti /\ InitNoExt
SpecSimd == InitSimdOnly
            /\ [][NextSimd /\ UNCHANGED <<tableVars, hookVars, multiVars, extVars>>]_vars
\* CVTHook objects on the virtual tables
InitHookOnly == InitHook /\ InitNoMulti /\ InitNoExt
SpecHook == InitHookOnly /\ [][NextHook /\ UNCHANGED <<multiVars, extVars>>]_vars
\* CVTHook objects on tables whose pages have any protection
InitPageOnly == InitNoScan /\ InitPages /\ InitHooks /\ InitNoMulti /\ InitNoExt
SpecPage == InitPageOnly /\ [][NextHook /\ UNCHANGED <<multiVars, extVars>>]_vars
\* two CVTFMHook instances of one signature on the virtual tables
SpecTwo == InitTwo
           /\ [][NextTwo /\ UNCHANGED <<scanVars, hookVars, parse, memprot, image, thr, rm,
                                        sm_callback, fcall>>]_vars
\* CVTFHook objects of one signature on the virtual tables
SpecFHook == InitFHook
             /\ [][NextFHook /\ UNCHANGED <<scanVars, multiVars, parse, memprot, image, thr,
                                            rm, m_storage2, fcall>>]_vars
\* calls of MemProtect and GetVirtualIndex
SpecFn == InitFn
          /\ [][NextFn /\ UNCHANGED <<scanVars, tableVars, hookVars, multiVars, parse,
                                      memprot, image, thr, rm, m_storage2, sm_callback>>]_vars
\* one CModule of the single-file module.cpp and its FindPatternSIMD call
InitSimdScanOnly == InitSimdScan /\ cbCalls = <<>> /\ InitNoHook /\ InitNoMulti /\ InitNoExt
SpecSimdScan == InitSimdScanOnly
                /\ [][NextSimdScan /\ UNCHANGED <<tableVars, hookVars, multiVars, extVars>>]_vars
\* one ELF image and a GetVirtualTableByName call
InitTableOnly == InitTable /\ cbCalls = <<>> /\ InitNoHook /\ InitNoMulti /\ InitNoExt
SpecTable == InitTableOnly
             /\ [][NextTable /\ UNCHANGED <<tableVars, hookVars, multiVars, extVars>>]_vars
\* one signature used on one CAssemblyModule
SpecSig == InitSig
           /\ [][NextSig /\ UNCHANGED <<tableVars, hookVars, multiVars, extVars>>]_vars
\* one pattern string and both parsers
SpecParse == InitParse
             /\ [][NextParse /\ UNCHANGED <<scanVars, tableVars, hookVars, multiVars, memprot, image, thr, rm, ext2Vars>>]_vars
\* one memory region, MemProtect calls and one CMemProtector
SpecProt == InitProt
            /\ [][NextProt /\ UNCHANGED <<scanVars, tableVars, hookVars, multiVars, parse, image, thr, rm, ext2Vars>>]_vars
\* module objects and the libraries they open
SpecImage == InitImage
             /\ [][NextImage /\ UNCHANGED <<scanVars, tableVars, hookVars, multiVars, parse, memprot, thr, rm, ext2Vars>>]_vars
\* two threads in FindPattern on one module with the reader-writer mutex
SpecConc == InitConc
            /\ [][NextConc /\ UNCHANGED <<call, ret, fromCache, nCalls, prevRet, prevCache,
                                         cbCalls, mem, tableVars, hookVars, multiVars,
                                         parse, memprot, image, rm, ext2Vars>>]_vars
\* one CVTFMHook, its owner adding and removing, another thread calling
SpecRace == InitRace
            /\ [][NextRace /\ UNCHANGED <<scanVars, hookVars, parse, memprot, image, thr, ext2Vars>>]_vars
\* one manager on the virtual tables
SpecMulti == InitMulti /\ [][NextMulti /\ UNCHANGED <<scanVars, hookVars, extVars>>]_vars

-----------------------------------------------------------------------------
(* What the specification says a scan returns *)

PatternLen(c) == Len(c.mask)
LastCandidate(m, c) == SectionBase + Len(m) - PatternLen(c)
FirstCandidate(c) == IF c.start > SectionBase THEN c.start ELSE SectionBase

\* P matches at p: every position is a wildcard or holds the section's byte
MatchesAt(m, p, c) ==
    \A i \in 1..PatternLen(c) : c.mask[i] = "?" \/ c.pattern[i] = ByteAt(m, p + i - 1)

\* the lowest matching address of lo..hi, or the invalid address
LowestMatch(m, lo, hi, c) ==
    LET hits == {p \in lo..hi : MatchesAt(m, p, c)} IN
    IF hits = {} THEN InvalidMemory
    ELSE CHOOSE p \in hits : \A q \in hits : p <= q

\* 1 <= L <= S.size, and start is absent or inside [S.base, S.base + S.size - L]
ValidScanInput(m, c) ==
    /\ PatternLen(c) >= 1
    /\ PatternLen(c) <= Len(m)
    /\ c.start = InvalidMemory \/ c.start \in SectionBase..LastCandidate(m, c)

\* the number of contiguous 'x' runs of a mask
NumRuns(mask) == Len(BuildRuns(mask, 1, <<>>, Len(mask) + 1))

(* C1: on a module whose cache is empty, FindPattern with a valid section, a
   pattern of 1 <= L <= S.size bytes and a start that is absent or inside
   [S.base, S.base+S.size-L] returns the lowest address p of
   [max(start, S.base), S.base+S.size-L] at which every position is a wildcard
   or equals the section's byte, and the invalid address when there is none;
   also when the mask has more 'x' runs than the run buffer holds. *)
C1_FindPatternLowestMatch ==
    (call.api = "FindPattern" /\ nCalls >= 1 /\ prevCache = EmptyCache
        /\ ValidScanInput(mem, call))
    => ret = LowestMatch(mem, FirstCandidate(call), LastCandidate(mem, call), call)

\* C1's case: the run buffer overflowed and the match is not the first candidate
C1_Witness ==
    /\ call.api = "FindPattern" /\ nCalls = 1 /\ ValidScanInput(mem, call)
    /\ NumRuns(call.mask) > call.SIZE
    /\ ret > FirstCandidate(call)
    /\ ret = LastCandidate(mem, call)

(* C2: on the same valid inputs the SIMD scanners (FindPatternSSE2,
   FindPatternAVX2) return the address FindPatternScalar returns, for
   sections of every size and matches at every candidate position up to
   S.base+S.size-L. *)
C2_ScannerEquivalence ==
    (call.api = "CModule" /\ call.build \in {"sse2", "avx2"}
        /\ ValidScanInput(mem, call))
    => ret = FindPatternScalar(mem, FirstCandidate(call), LastCandidate(mem, call),
                               call.pattern, call.mask, PatternLen(call))

(* C9: once a FindPattern call has found a match, the same call made again
   returns the same address and is answered by the cache lookup, without a
   scan and without touching the cache; a call that finds no match leaves
   the cache as it was. *)
C9_CacheIdempotence ==
    (call.api = "FindPattern" /\ nCalls >= 1)
    => /\ (nCalls >= 2 /\ prevRet # InvalidMemory)
            => (ret = prevRet /\ fromCache /\ m_mapCached = prevCache)
       /\ (ret = InvalidMemory) => (m_mapCached = prevCache)

\* C9's case: a match found by a scan beyond the first candidate, asked again
C9_Witness ==
    /\ call.api = "FindPattern" /\ nCalls = 2
    /\ prevRet > SectionBase /\ ret = prevRet /\ fromCache
    /\ NumRuns(call.mask) >= 1

\* L = 0, L > S.size, or start outside [S.base, S.base + S.size - L]
InvalidScanInput(m, c) ==
    \/ PatternLen(c) = 0
    \/ PatternLen(c) > Len(m)
    \/ c.start # InvalidMemory /\ c.start \notin SectionBase..LastCandidate(m, c)

(* C10: FindPattern reports invalid input as not-found: for an empty
   pattern, a pattern longer than the section, or a start outside
   [S.base, S.base+S.size-L] it returns the invalid address and adds no
   cache entry, whatever the mask. *)
C10_InvalidInputNotFound ==
    (call.api = "FindPattern" /\ nCalls = 1 /\ InvalidScanInput(mem, call))
    => (ret = InvalidMemory /\ m_mapCached = EmptyCache)

-----------------------------------------------------------------------------
(* What the specification says of one CVTHook *)

\* the object the last operation acted on was installed when it began
WasInstalled == last.was \in {"hooked", "movedTo"}
\* the last Hook call named the invalid index
InvalidIndexGiven == \E v \in Views : last.slot = SlotAddr(v, DYNLIB_INVALID_VCALL)

(* C3: Hook(view, index, fn) followed by Unhook() on the same CVTHook object
   leaves the slot holding exactly the pointer it held before Hook; Unhook
   returned true, and the object is no longer installed: its slot address
   and its saved original are both cleared. *)
C3_HookReversibility ==
    (last.op = "Unhook" /\ last.was = "hooked")
    => /\ last.ret
       /\ vtmem[last.slot] = last.before
       /\ hooks[last.obj].ptr = InvalidMemory
       /\ hooks[last.obj].orig = InvalidMemory

\* C3's case: the unhooked slot had been hooked by another object before, so
\* the pointer that comes back is not the class's own function
C3_Witness ==
    /\ last.op = "Unhook" /\ last.was = "hooked" /\ last.ret
    /\ last.before \in HookFns
    /\ vtmem[last.slot] = last.before

(* C7: Hook(view, index, fn) on an object that is not installed installs it:
   its slot address is &view[index] and not zero, its saved original is the
   value the slot held immediately before the call, and the slot holds fn.
   Hook on an installed object, or with the invalid index, fails an
   assertion, and only then. *)
C7_HookInstalls ==
    last.op = "Hook"
    => IF WasInstalled \/ InvalidIndexGiven
       THEN aborted
       ELSE /\ ~aborted
            /\ last.slot # InvalidMemory
            /\ hooks[last.obj].ptr = last.slot
            /\ hooks[last.obj].orig = last.before
            /\ vtmem[last.slot] = last.fn

\* C7's case: an object hooks again after it was unhooked, and saves the
\* class's own function of slot 1
C7_Witness ==
    /\ last.op = "Hook" /\ ~aborted /\ last.was = "unhooked"
    /\ \E v \in HookViews : last.slot = SlotAddr(v, 1) /\ last.before = OrigFn(v, 1)
    /\ hooks[last.obj].orig = last.before
    /\ vtmem[last.slot] = last.fn

(* C8: destroying an installed CVTHook writes its saved original back to its
   slot; destroying one that was never installed, was unhooked, or was moved
   from writes nothing; an installation is restored at most once, by the
   object that holds it after the moves, and exactly once when that object
   has been destroyed. *)
C8_RaiiLifetime ==
    /\ last.op = "Destroy"
       => IF WasInstalled
          THEN /\ last.writes = <<[addr |-> last.slot, val |-> last.before]>>
               /\ vtmem[last.slot] = last.before
          ELSE last.writes = <<>>
    /\ \A k \in 1..Len(installs) :
          /\ installs[k].restores <= 1
          /\ installs[k].restores = 1 => installs[k].by = installs[k].holder
          /\ (installs[k].holder # 0 /\ hooks[installs[k].holder].life = "dead")
                => installs[k].restores = 1

\* C8's case: the moved-from object was destroyed first and wrote nothing,
\* then the move target was destroyed and restored the slot
C8_Witness ==
    /\ last.op = "Destroy" /\ last.was = "movedTo"
    /\ \E o \in Hooks : o # last.obj /\ track[o].status = "destroyed"
    /\ Len(installs) = 1
    /\ installs[1].restores = 1 /\ installs[1].by = last.obj
    /\ vtmem[last.slot] = last.before

-----------------------------------------------------------------------------
(* What the specification says of the managers *)

SlotsOf(v) == {SlotAddr(v, i) : i \in Indices}

(* C4: remove_hook(view) erases every entry stored under view and leaves
   every slot that was hooked under view holding the pointer it had before
   the first add_hook on it, for one, two or more add_hook calls; a later
   call through such a slot runs the function that was there before, and
   none of the removed callbacks. *)
C4_RemoveHookRestores ==
    /\ mlast.op = "RemoveHook"
       => /\ \A k \in 1..Len(m_storage) : m_storage[k].key # mlast.view
          /\ \A i \in Indices :
                mlast.expect[i] # InvalidMemory
                   => vtmem[SlotAddr(mlast.view, i)] = mlast.expect[i]
    /\ (mlast.op = "Call" /\ \A a \in SlotsOf(mlast.view) : added[a] = <<>>
            /\ m_storage = <<>>)
       => mlast.invoked = <<OrigFn(mlast.view, mlast.index)>>

(* C5: in CVTFMHook exactly one slot-hook exists per hooked (vtable, index)
   pair after any sequence of add_hook calls: no two stored elements hold the
   same slot. *)
C5_OneSlotHookPerPair ==
    manager = "CVTFMHook"
    => /\ \A j, k \in 1..Len(m_storage) :
             j # k => m_storage[j].ptr # m_storage[k].ptr
       /\ \A a \in SlotAddrs :
             added[a] # <<>> => \E k \in 1..Len(m_storage) : m_storage[k].ptr = a

\* the callbacks added for (view, index) are all the callbacks of the view
OnlySlotOfView(v, nIndex) ==
    \A a \in SlotsOf(v) : a # SlotAddr(v, nIndex) => added[a] = <<>>

(* C6: after callbacks c1,...,cn (n >= 1) have been added in that order for
   (view, index), and none for another slot of the view, a call through that
   slot invokes c1,...,cn in insertion order, each exactly once, and returns
   cn's result. *)
C6_FanOut ==
    (manager = "CVTFMHook" /\ mlast.op = "Call"
        /\ added[SlotAddr(mlast.view, mlast.index)] # <<>>
        /\ OnlySlotOfView(mlast.view, mlast.index))
    => LET cs == added[SlotAddr(mlast.view, mlast.index)] IN
       /\ mlast.found
       /\ mlast.invoked = cs
       /\ mlast.result = cs[Len(cs)]

\* C6's case: two different callbacks added for one slot, then a call
C6_Witness ==
    /\ manager = "CVTFMHook" /\ mlast.op = "Call" /\ mlast.found
    /\ OnlySlotOfView(mlast.view, mlast.index)
    /\ Len(mlast.invoked) = 2 /\ mlast.invoked[1] # mlast.invoked[2]
    /\ mlast.invoked = added[SlotAddr(mlast.view, mlast.index)]
    /\ mlast.result = mlast.invoked[2]

-----------------------------------------------------------------------------
(* What the specification says of signatures and FindAllPatterns *)

\* the matches an enumeration visits from address from on: the lowest match,
\* then the lowest match at or after the end of the previous one
RECURSIVE ExpectedHits(_, _, _)
ExpectedHits(m, from, c) ==
    LET p == LowestMatch(m, from, LastCandidate(m, c), c) IN
    IF p = InvalidMemory THEN <<>>
    ELSE <<p>> \o ExpectedHits(m, p + PatternLen(c), c)

(* C11: FindAllPatterns invokes callback(index, match) only for actual
   matches, with index 0, 1, 2, ... in increasing address order, each search
   resuming at hit + sig.length; it returns the number of matches enumerated;
   when the section holds no match it returns 0 and never invokes the
   callback. *)
C11_FindAllEnumeratesMatches ==
    (call.api = "FindAllPatterns" /\ ValidScanInput(mem, call))
    => LET hits == ExpectedHits(mem, FirstCandidate(call), call) IN
       /\ \A i \in 1..Len(cbCalls) :
             /\ i <= Len(hits)
             /\ cbCalls[i] = [index |-> i - 1, match |-> hits[i]]
       /\ hits = <<>> => (ret = 0 /\ cbCalls = <<>>)
       /\ call.arg = -1 => (ret = Len(hits) /\ Len(cbCalls) = Len(hits))

\* find(start, section) of the signature of call c, on a module with an empty cache
FindOf(m, c) ==
    SigFind(EmptyCache, m, c.SIZE, c.pattern, c.mask, c.start, c.section).ret

(* C12: the signature combinators scan first and adjust afterwards:
   offset_find(delta, start, section) = find(start, section) + delta and
   deref_find(levels, start, section) = find(start, section).deref(levels);
   the scanner is handed the caller's start unchanged. *)
C12_ScanThenAdjust ==
    /\ (call.api = "OffsetAndFind" /\ ValidScanInput(mem, call)
            /\ FindOf(mem, call) # InvalidMemory)
       => ret = FindOf(mem, call) + call.arg
    /\ (call.api = "DerefAndFind" /\ ValidScanInput(mem, call)
            /\ FindOf(mem, call) # InvalidMemory)
       => ret = Deref(mem, FindOf(mem, call), call.arg)

-----------------------------------------------------------------------------
(* Pattern strings: what the text of a string says *)

\* the value each hexadecimal digit stands for, by position in this table
HexTable == <<{"0"}, {"1"}, {"2"}, {"3"}, {"4"}, {"5"}, {"6"}, {"7"}, {"8"}, {"9"},
              {"A", "a"}, {"B", "b"}, {"C", "c"}, {"D", "d"}, {"E", "e"}, {"F", "f"}>>
IsHex(c) == \E v \in 1..16 : c \in HexTable[v]
Nibble(c) == (CHOOSE v \in 1..16 : c \in HexTable[v]) - 1

\* the string cut at every space (two spaces in a row give an empty token)
RECURSIVE Tokens(_)
Tokens(s) ==
    IF \A i \in 1..Len(s) : s[i] # " " THEN <<s>>
    ELSE LET k == CHOOSE i \in 1..Len(s) :
                     s[i] = " " /\ \A j \in 1..(i - 1) : s[j] # " "
         IN  <<SubSeq(s, 1, k - 1)>> \o Tokens(SubSeq(s, k + 1, Len(s)))

IsHexToken(t) == Len(t) = 2 /\ IsHex(t[1]) /\ IsHex(t[2])
IsWildcardToken(t) == t = <<"?">> \/ t = <<"?", "?">>
WellFormed(s) == \A i \in 1..Len(Tokens(s)) :
                    IsHexToken(Tokens(s)[i]) \/ IsWildcardToken(Tokens(s)[i])

\* the pattern p is the token list toks, cell by cell
IsPatternOf(p, toks) ==
    /\ ~p.oob /\ ~p.aborted
    /\ p.m_nSize = Len(toks)
    /\ \A i \in 1..Len(toks) :
          IF IsHexToken(toks[i])
          THEN /\ p.m_aMask[i] = "x"
               /\ p.m_aBytes[i] = 16 * Nibble(toks[i][1]) + Nibble(toks[i][2])
          ELSE p.m_aMask[i] = "?"

\* two patterns of the same length, bytes and mask
SamePattern(p, q) ==
    /\ ~p.aborted /\ ~q.aborted
    /\ p.m_nSize = q.m_nSize
    /\ \A i \in 1..p.m_nSize : /\ p.m_aBytes[i] = q.m_aBytes[i]
                               /\ p.m_aMask[i] = q.m_aMask[i]

CapacityOf(N) == (N - 1) \div 2

\* C13: the compile-time parser and the runtime parser make the same pattern
\* (length, bytes, mask) of every string, whenever neither stores past its
\* arrays.
C13_ParsersAgree ==
    (parse.done /\ ~parse.compiled.oob /\ ~parse.parsed.oob)
    => SamePattern(parse.compiled, parse.parsed)

\* C14: of a string of two-digit hexadecimal tokens and wildcards "?" / "??"
\* separated by single spaces, each parser whose arrays hold the tokens makes
\* a pattern with one cell per token: mask 'x' and the token's value for a
\* hexadecimal token, mask '?' for a wildcard.
C14_TokensToPattern ==
    (parse.done /\ WellFormed(parse.svInput))
    => LET toks == Tokens(parse.svInput)
       IN  /\ Len(toks) <= CapacityOf(Len(parse.svInput) + 1)
              => IsPatternOf(parse.compiled, toks)
           /\ Len(toks) < CapacityOf(parse.N)
              => IsPatternOf(parse.parsed, toks)

\* C14 witness: "Ab ??" has been parsed by both parsers, each with room for
\* its two tokens.
C14_Witness ==
    /\ parse.done
    /\ parse.svInput = <<"A", "b", " ", "?", "?">>
    /\ parse.N = 13
    /\ parse.compiled.m_nSize = 2
    /\ parse.parsed.m_nSize = 2

-----------------------------------------------------------------------------
(* Memory protection *)

\* C15: MemProtect returns the protection the region had before the call, as
\* abstract flags, and sets status to whether the system call succeeded; a
\* CMemProtector constructed with unsetOnDestroy whose two system calls
\* succeeded leaves the region, once destroyed, with the protection it had
\* before construction.
C15_MemProtectReturnsPrevious ==
    /\ memprot.last.op \in {"MemProtect", "CMemProtector"}
       => /\ memprot.last.ret = TranslateProtectionToFlag(memprot.os, memprot.last.prev)
          /\ memprot.last.status = memprot.last.osOk
    /\ (memprot.life = "dead" /\ memprot.last.op = "~CMemProtector"
        /\ memprot.m_unsetLater /\ memprot.ctorOk /\ memprot.last.osOk)
       => memprot.region = memprot.before

\* the same statement on Linux alone
C15_OnLinux == memprot.os = "linux" => C15_MemProtectReturnsPrevious

-----------------------------------------------------------------------------
(* Module objects *)

AliveValid(o) == image.objs[o].life = "alive" /\ IsValidModule(image.objs[o])

\* C16: every valid module object has an executable-section pointer that is
\* not null, points at an element of the object's own section list, and that
\* element is named ".text".
C16_ExecutableSectionPointer ==
    ~image.crashed =>
    \A o \in Objs :
       AliveValid(o) =>
          LET obj == image.objs[o] IN
          /\ obj.m_pExecutableSection # NullPtr
          /\ obj.m_pExecutableSection.buf = obj.buf
          /\ obj.m_pExecutableSection.idx \in 1..Len(obj.m_vecSections)
          /\ obj.m_vecSections[obj.m_pExecutableSection.idx] = ".text"

\* C17: the section list of a valid module object is the one recorded by the
\* open that made the object valid, and sections were enumerated once.
C17_SectionListFixed ==
    \A o \in Objs :
       AliveValid(o) => /\ image.objs[o].m_vecSections = image.objs[o].atOpen
                        /\ image.objs[o].enumerations = 1

\* C18: a handle is never closed more often than it was opened, and once no
\* module object is alive every handle opened has been closed as many times
\* as it was opened.
C18_HandleReleasedOnce ==
    \A l \in Libs :
       /\ image.closes[l] <= image.opens[l]
       /\ (~image.crashed /\ \A o \in Objs : image.objs[o].life # "alive")
          => image.closes[l] = image.opens[l]

-----------------------------------------------------------------------------
(* Threads and the cache *)

InLookup(t) == thr.pc[t] = "reading"
InInsert(t) == thr.pc[t] = "inserting"
Returned(t) == thr.pc[t] = "done"

\* C19: with the reader-writer mutex no cache insert overlaps a lookup or
\* another insert; two threads that called with the same arguments and have
\* both returned have returned the same address, and if that address is valid
\* the cache maps their key to it.
C19_CacheUnderLocks ==
    /\ \A t, u \in Threads :
          (t # u /\ InInsert(t)) => (~InLookup(u) /\ ~InInsert(u))
    /\ \A t, u \in Threads :
          (t # u /\ Returned(t) /\ Returned(u) /\ thr.args[t] = thr.args[u])
          => /\ thr.ret[t] = thr.ret[u]
             /\ thr.ret[t] # InvalidMemory
                => /\ KeyOf(thr.args[t]) \in DOMAIN m_mapCached
                   /\ m_mapCached[KeyOf(thr.args[t])] = thr.ret[t]

\* C19 witness: both threads scanned for the same key, both inserted and
\* returned the same valid address.
C19_Witness ==
    /\ \A t \in Threads : Returned(t) /\ thr.scanned[t]
    /\ thr.args[1] = thr.args[2]
    /\ thr.ret[1] # InvalidMemory
    /\ thr.ret[1] = thr.ret[2]

-----------------------------------------------------------------------------
(* Calls through a slot while RemoveHook or Clear runs *)

\* C20: whenever a slot holds the trampoline, the callback map has a list for
\* the slot's virtual table, and no call through a slot has failed to find
\* its list.
C20_TrampolineFindsList ==
    /\ \A v \in Views, i \in Indices :
          vtmem[SlotAddr(v, i)] = Trampoline => v \in DOMAIN sm_vcallbacks
    /\ mlast.op = "Call" => mlast.found

-----------------------------------------------------------------------------
(* The cache and the mask *)

\* what FindPattern returns for call c on a module whose cache is empty
UncachedResult(m, c) ==
    FindPattern(EmptyCache, m, SectionPtr(TextSection(m)), c.SIZE,
                c.pattern, c.mask, c.start, c.section).ret

(* C21: a FindPattern result served from the cache equals the result an
   uncached scan of the same bytes, mask, start and section returns; two
   patterns with the same length and bytes but different masks never share
   a cache entry. *)
C21_CacheRespectsMask ==
    (call.api = "FindPattern" /\ fromCache) => ret = UncachedResult(mem, call)

-----------------------------------------------------------------------------
(* Page protection around the pointer store *)

(* C22: CVTHook::Hook and CVTHook::Unhook leave the memory protection of
   the page containing the slot exactly as it was before the call, whether
   the page was read-only, read-write or read-execute beforehand. *)
C22_ProtectionPreserved ==
    [][(last'.op \in {"Hook", "Unhook"}) => prot' = prot]_vars

-----------------------------------------------------------------------------
(* Callback lists and slots *)

(* C23: in CVTFMHook a callback added for (view, index i) is invoked only by
   calls through slot i: a call through a hooked slot of a view does not
   invoke a callback that was added only for another slot of that view. *)
C23_SlotIsolation ==
    (manager = "CVTFMHook" /\ mlast.op = "Call"
        /\ added[SlotAddr(mlast.view, mlast.index)] # <<>>)
    => \A a \in SlotsOf(mlast.view) \ {SlotAddr(mlast.view, mlast.index)} :
          \A cb \in Range(added[a]) :
             cb \notin Range(added[SlotAddr(mlast.view, mlast.index)])
                => cb \notin Range(mlast.invoked)

-----------------------------------------------------------------------------
(* Manager instances of one signature *)

\* the views instance k has entries for
ViewsOf(storage) == {storage[e].key : e \in 1..Len(storage)}

\* the list of view w in the map, <<>> when the map has none
ListOf(cbs, w) == IF w \in DOMAIN cbs THEN cbs[w] ELSE <<>>

(* C24: two manager instances of the same signature are independent: Clear
   or RemoveHook on one instance leaves unchanged the callback list of every
   view that only the other instance has hooked. *)
C24_InstancesIndependent ==
    [][(mlast'.op \in {"Clear", "RemoveHook"})
         => \A w \in Views :
               (/\ w \notin ViewsOf(StorageOf(mlast'.inst))
                /\ w \in ViewsOf(StorageOf(3 - mlast'.inst)))
               => (/\ w \in DOMAIN sm_vcallbacks'
                   /\ sm_vcallbacks'[w] = ListOf(sm_vcallbacks, w))]_vars

-----------------------------------------------------------------------------
(* The callback shared by the CVTFHook objects of a signature *)

\* some CVTFHook of the signature is installed
SomeInstalled == \E h \in Hooks : Alive(h) /\ IsHooked(Fields(h))

(* C25: the shared callback of CVTFHook is set exactly while a CVTFHook of
   that signature is installed: after every Hook, Unhook, Clear and
   destruction the callback is non-empty if and only if some CVTFHook of the
   signature is installed. *)
C25_CallbackWhileInstalled ==
    ~aborted => ((sm_callback # 0) <=> SomeInstalled)

-----------------------------------------------------------------------------
(* Page ranges and virtual indices *)

\* the pages that hold a byte of [dst, dst + n)
EnclosingPages(dst, n, pageSize) ==
    (dst \div pageSize)..((dst + n - 1) \div pageSize)

(* C26: MemProtect(dst, n, flags) applies the protection change to the whole
   page-aligned range enclosing [dst, dst+n): from dst rounded down to the
   page size to the end of the last page that contains a byte of the region,
   also when dst is not page-aligned and the region crosses a page boundary. *)
C26_WholePageRange ==
    (fcall.fn = "MemProtect")
    => fcall.pages = EnclosingPages(fcall.dest, fcall.size, fcall.pageSize)

(* C27: GetVirtualIndex under the Itanium ABI: for a pointer to member
   function whose addr field is 1 + k*sizeof(pointer) the result is k; for a
   non-virtual member function (even addr) the result is
   DYNLIB_INVALID_VCALL. *)
C27_ItaniumVirtualIndex ==
    (fcall.fn = "GetVirtualIndex")
    => /\ \A k \in 0..MaxPmfAddr : fcall.addr = 1 + k * PtrSize => fcall.ret = k
       /\ fcall.addr % 2 = 0 => fcall.ret = DYNLIB_INVALID_VCALL

-----------------------------------------------------------------------------
(* The parsers and their arrays *)

\* a parser result kept inside arrays of SIZE cells
InsideArrays(result, SIZE) == ~result.oob /\ result.m_nSize <= SIZE

(* C28: neither parser writes outside its fixed arrays: for every input
   string every index written in bytes[] and mask[], the terminating mask
   byte of ParsePattern included, is smaller than the capacity SIZE, and the
   resulting pattern length is at most SIZE. *)
C28_ParsersStayInArrays ==
    parse.done
    => /\ InsideArrays(parse.compiled, Len(parse.svInput) \div 2)
       /\ InsideArrays(parse.parsed, (parse.N - 1) \div 2)

-----------------------------------------------------------------------------
(* The multi-block scanner *)

(* C29: FindPatternSIMD returns the first position in
   [start, S.base+S.size-L], last candidate position included, at which all
   'x' positions of the pattern match, for patterns with wildcards in any
   position, the first and the last token included; the bytes stored at
   wildcard positions never influence the result, and the scan terminates
   for every section size. *)
C29_SimdFirstMatch ==
    (call.api = "FindPatternSIMD")
    => /\ call.ended
       /\ ValidScanInput(mem, call)
            => ret = LowestMatch(mem, FirstCandidate(call), LastCandidate(mem, call), call)

-----------------------------------------------------------------------------
(* What the specification says of GetVirtualTableByName on ELF *)

\* the lowest address of a set of addresses, the invalid address when empty
LowestOf(addrs) ==
    IF addrs = {} THEN InvalidMemory ELSE CHOOSE a \in addrs : \A b \in addrs : a <= b

\* the addresses of section sec at which the bytes bs stand
StandsAt(m, sec, bs) ==
    IF sec.isNull THEN {}
    ELSE {a \in sec.base..(sec.base + sec.size - Len(bs)) :
            \A i \in 1..Len(bs) : ByteAt(m, a + i - 1) = bs[i]}

\* <decimal length><Name>, or the caller's string
DecoratedName(c) ==
    IF c.decorated THEN c.name
    ELSE (IF Len(c.name) < 10 THEN <<48 + Len(c.name)>>
          ELSE <<48 + (Len(c.name) \div 10), 48 + (Len(c.name) % 10)>>) \o c.name

\* the address of the NUL-terminated name in .rodata
NameAddr(m, c) == LowestOf(StandsAt(m, c.secs.rodata, DecoratedName(c) \o <<0>>))

\* the pointers to address v in section sec whose preceding word is 0
VTableHits(m, sec, v) ==
    {h \in StandsAt(m, sec, ObjectBytes(v)) :
        \A i \in 1..PtrSize : ByteAt(m, h - PtrSize + i - 1) = 0}

\* hit + 8 for the first such pointer to the type_info that owns the name
\* pointer namePtr, searching .data.rel.ro and then .data.rel.ro.local
VTableOf(m, c, namePtr) ==
    LET inRelro == VTableHits(m, c.secs.relro, namePtr - PtrSize)
        inLocal == VTableHits(m, c.secs.local, namePtr - PtrSize)
    IN  IF namePtr = InvalidMemory THEN InvalidMemory
        ELSE IF inRelro # {} THEN LowestOf(inRelro) + PtrSize
        ELSE IF inLocal # {} THEN LowestOf(inLocal) + PtrSize
        ELSE InvalidMemory

\* the name pointer: in .data.rel.ro only
NamePtrInRelro(m, c) ==
    IF NameAddr(m, c) = InvalidMemory THEN InvalidMemory
    ELSE LowestOf(StandsAt(m, c.secs.relro, ObjectBytes(NameAddr(m, c))))

\* the name pointer: in .data.rel.ro, or else in .data.rel.ro.local
NamePtrInEither(m, c) ==
    IF NamePtrInRelro(m, c) # InvalidMemory THEN NamePtrInRelro(m, c)
    ELSE IF NameAddr(m, c) = InvalidMemory THEN InvalidMemory
    ELSE LowestOf(StandsAt(m, c.secs.local, ObjectBytes(NameAddr(m, c))))

\* the call ran on an image that has .rodata and .data.rel.ro
TableCallMade ==
    /\ call.api = "GetVirtualTableByName"
    /\ ~call.secs.rodata.isNull /\ ~call.secs.relro.isNull

(* C30, as stated: GetVirtualTableByName finds the NUL-terminated decorated
   name in .rodata, a pointer to that name in .data.rel.ro or
   .data.rel.ro.local, takes the type_info at that pointer minus 8 and
   returns hit + 8 for the first pointer to that type_info, searching
   .data.rel.ro and then .data.rel.ro.local, whose preceding 8-byte word is
   0; otherwise it returns the invalid address. *)
C30_NamePointerInEitherSection ==
    TableCallMade => ret = VTableOf(mem, call, NamePtrInEither(mem, call))

(* C30, amended: the pointer to the name is searched in .data.rel.ro only;
   with that pointer the result is hit + 8 for the first pointer to the
   type_info, searching .data.rel.ro and then .data.rel.ro.local, whose
   preceding 8-byte word is 0, and the invalid address when the name, the
   name pointer in .data.rel.ro or such a hit does not exist; the search
   loop ends on every image. *)
C30_VTableByName ==
    TableCallMade
    => /\ ~call.aborted
       /\ ret = VTableOf(mem, call, NamePtrInRelro(mem, call))

\* C30's case: the first pointer to the type_info is not preceded by 0 and
\* the vtable is found behind it, in .data.rel.ro.local
C30_Witness ==
    /\ TableCallMade
    /\ ~call.decorated
    /\ ret = LocalSection.base + 2 * PtrSize
    /\ StandsAt(mem, call.secs.relro, ObjectBytes(NamePtrInRelro(mem, call) - PtrSize)) # {}

=============================================================================
